---- MODULE Spec2Model ----
(***************************************************************************)
(* Model of the Claude CLI bridge (ClaudeCliProvider) and of the           *)
(* validation script's executeCommand.                                      *)
(*                                                                          *)
(* Text is a sequence of one-character strings.  JSON values are tagged     *)
(* records, so that values of different JavaScript types can be compared.   *)
(***************************************************************************)
EXTENDS Integers, Sequences, FiniteSets, TLC

----------------------------------------------------------------------------
(* Characters and text helpers *)

QUOTE == "\""
BSLASH == "\\"
NL == "\n"
SP == " "
\* the backquote character (a string of the module cannot hold it)
TICK == "BACKQUOTE"

Digits == <<"0", "1", "2", "3", "4", "5", "6", "7", "8", "9">>

IsDigit(c) == \E k \in 1..10 : Digits[k] = c

DigitVal(c) == (CHOOSE k \in 1..10 : Digits[k] = c) - 1

\* JSON insignificant whitespace; String.prototype.trim strips the same
\* characters of the alphabet used here.
IsWs(c) == c \in {SP, NL, "\t", "\r"}

\* s.substring(from, to) with 0-based, end-exclusive indices clamped to s
Substring(s, from, to) ==
    LET lo == IF from < 0 THEN 0 ELSE IF from > Len(s) THEN Len(s) ELSE from
        hi == IF to < 0 THEN 0 ELSE IF to > Len(s) THEN Len(s) ELSE to
        a == IF lo <= hi THEN lo ELSE hi
        b == IF lo <= hi THEN hi ELSE lo
    IN  SubSeq(s, a + 1, b)

RECURSIVE SkipWs(_, _)
\* first position >= i of s that holds no whitespace (Len(s)+1 when none)
SkipWs(s, i) ==
    IF i <= Len(s) /\ IsWs(s[i]) THEN SkipWs(s, i + 1) ELSE i

RECURSIVE SkipWsBack(_, _)
\* last position <= i of s that holds no whitespace (0 when none)
SkipWsBack(s, i) ==
    IF i >= 1 /\ IsWs(s[i]) THEN SkipWsBack(s, i - 1) ELSE i

\* String.prototype.trim
Trim(s) == SubSeq(s, SkipWs(s, 1), SkipWsBack(s, Len(s)))

\* does s hold the text w at position i
HasAt(s, i, w) ==
    /\ i >= 1
    /\ i + Len(w) - 1 <= Len(s)
    /\ \A k \in 1..Len(w) : s[i + k - 1] = w[k]

----------------------------------------------------------------------------
(* JavaScript values *)

JUndef == [t |-> "undefined"]
JNull == [t |-> "null"]
JBool(b) == [t |-> "bool", v |-> b]
\* a number: integer part v (signed), fraction digits f without trailing zeros
JNum(n) == [t |-> "num", v |-> n, f |-> <<>>, neg |-> n < 0]
JFrac(n, fr, ng) == [t |-> "num", v |-> n, f |-> fr, neg |-> ng]
JStr(s) == [t |-> "str", v |-> s]
JArr(xs) == [t |-> "arr", v |-> xs]
\* an object: the sequence of its <<key, value>> members in source order
JObj(ms) == [t |-> "obj", v |-> ms]

\* JavaScript truthiness (ToBoolean)
Truthy(x) ==
    CASE x.t = "undefined" -> FALSE
      [] x.t = "null" -> FALSE
      [] x.t = "bool" -> x.v
      [] x.t = "num" -> ~(x.v = 0 /\ x.f = <<>>)
      [] x.t = "str" -> x.v /= <<>>
      [] OTHER -> TRUE

\* own property of a parsed value: the last member of that key wins
HasKey(x, key) == x.t = "obj" /\ \E k \in 1..Len(x.v) : x.v[k][1] = key

\* x[key] of a non-null value: undefined unless x is an object holding key
Get(x, key) ==
    IF HasKey(x, key)
    THEN x.v[CHOOSE k \in 1..Len(x.v) :
                /\ x.v[k][1] = key
                /\ \A j \in (k + 1)..Len(x.v) : x.v[j][1] /= key][2]
    ELSE JUndef

----------------------------------------------------------------------------
(* JSON.parse, for the JSON texts without exponents and \u escapes *)

PFail == [ok |-> FALSE, val |-> JNull, pos |-> 0]
POk(x, p) == [ok |-> TRUE, val |-> x, pos |-> p]

RECURSIVE StripZeros(_)
StripZeros(ds) ==
    IF ds /= <<>> /\ ds[Len(ds)] = "0" THEN StripZeros(SubSeq(ds, 1, Len(ds) - 1))
    ELSE ds

RECURSIVE ScanDigits(_, _)
\* first position >= i of s that holds no digit
ScanDigits(s, i) ==
    IF i <= Len(s) /\ IsDigit(s[i]) THEN ScanDigits(s, i + 1) ELSE i

RECURSIVE DigitsVal(_)
DigitsVal(ds) ==
    IF ds = <<>> THEN 0
    ELSE 10 * DigitsVal(SubSeq(ds, 1, Len(ds) - 1)) + DigitVal(ds[Len(ds)])

\* number := -? (0 | [1-9][0-9]*) (. [0-9]+)?
ParseNumber(s, i) ==
    LET ng == i <= Len(s) /\ s[i] = "-"
        a == IF ng THEN i + 1 ELSE i
        b == ScanDigits(s, a)
        int == SubSeq(s, a, b - 1)
        hasFr == b <= Len(s) /\ s[b] = "."
        c == IF hasFr THEN ScanDigits(s, b + 1) ELSE b
        fr == IF hasFr THEN SubSeq(s, b + 1, c - 1) ELSE <<>>
    IN  IF int = <<>> \/ (Len(int) > 1 /\ int[1] = "0") \/ (hasFr /\ fr = <<>>)
        THEN PFail
        ELSE LET n == DigitsVal(int)
                 f == StripZeros(fr)
             IN  POk(JFrac(IF ng THEN 0 - n ELSE n, f, ng /\ (n /= 0 \/ f /= <<>>)), c)

\* the number of backslashes that stand right before position k, none of
\* them before position lo
BackslashRun(s, k, lo) ==
    CHOOSE m \in 0..(k - lo) :
        /\ \A j \in (k - m)..(k - 1) : s[j] = BSLASH
        /\ m = k - lo \/ s[k - m - 1] /= BSLASH

\* is the character at position k of a string literal, whose characters
\* begin at lo, the second character of an escape
IsEscaped(s, k, lo) == BackslashRun(s, k, lo) % 2 = 1

\* the character an escape \c stands for ("" when JSON has no such escape)
Unescape(c) ==
    CASE c \in {QUOTE, BSLASH, "/"} -> c
      [] c = "n" -> NL
      [] c = "t" -> "\t"
      [] c = "r" -> "\r"
      [] OTHER -> ""

\* the characters s[lo..hi] of a string literal decoded; one that is not
\* allowed in a literal is decoded as ""
DecodeChars(s, lo, hi) ==
    [k \in 1..(hi - lo + 1) |->
        LET pos == lo + k - 1
        IN  IF IsEscaped(s, pos, lo) THEN Unescape(s[pos])
            ELSE IF s[pos] = BSLASH THEN "skip"
            ELSE IF s[pos] \in {NL, "\t", "\r"} THEN ""
            ELSE s[pos]]

\* the string literal whose characters are s[lo..hi]
StringBody(s, lo, hi, chars) ==
    IF \E k \in 1..Len(chars) : chars[k] = "" THEN PFail
    ELSE POk(JStr(SelectSeq(chars, LAMBDA ch : ch /= "skip")), hi + 2)

\* the string literal that begins at position i: it ends at the first quote
\* that no backslash escapes
ParseString(s, i) ==
    IF ~(i <= Len(s) /\ s[i] = QUOTE) THEN PFail
    ELSE LET ends == {k \in (i + 1)..Len(s) : s[k] = QUOTE /\ ~IsEscaped(s, k, i + 1)}
         IN  IF ends = {} THEN PFail
             ELSE LET e == CHOOSE k \in ends : \A j \in ends : k <= j
                  IN  StringBody(s, i + 1, e - 1, DecodeChars(s, i + 1, e - 1))

RECURSIVE ParseValue(_, _)
RECURSIVE ParseMembers(_, _, _)
RECURSIVE ParseElements(_, _, _)

\* after a member of an object: d is the position of the next token
MembersNext(s, ms, d) ==
    IF d > Len(s) THEN PFail
    ELSE IF s[d] = "}" THEN POk(JObj(ms), d + 1)
    ELSE IF s[d] = "," THEN ParseMembers(s, d + 1, ms)
    ELSE PFail

\* after the value x of the member of key k
MembersValue(s, acc, k, x) ==
    IF ~x.ok THEN PFail
    ELSE MembersNext(s, Append(acc, <<k.val.v, x.val>>), SkipWs(s, x.pos))

\* after the key k of a member: c is the position of the next token
MembersColon(s, acc, k, c) ==
    IF ~(c <= Len(s) /\ s[c] = ":") THEN PFail
    ELSE MembersValue(s, acc, k, ParseValue(s, c + 1))

MembersKey(s, acc, k) ==
    IF ~k.ok THEN PFail ELSE MembersColon(s, acc, k, SkipWs(s, k.pos))

\* members of an object from position i (a key is expected there); acc holds
\* the members parsed so far
ParseMembers(s, i, acc) == MembersKey(s, acc, ParseString(s, SkipWs(s, i)))

\* after an element of an array: d is the position of the next token
ElementsNext(s, xs, d) ==
    IF d > Len(s) THEN PFail
    ELSE IF s[d] = "]" THEN POk(JArr(xs), d + 1)
    ELSE IF s[d] = "," THEN ParseElements(s, d + 1, xs)
    ELSE PFail

ElementsValue(s, acc, x) ==
    IF ~x.ok THEN PFail
    ELSE ElementsNext(s, Append(acc, x.val), SkipWs(s, x.pos))

\* elements of an array from position i (a value is expected there)
ParseElements(s, i, acc) == ElementsValue(s, acc, ParseValue(s, i))

\* the value whose first character is at position i
ValueAt(s, i) ==
    IF i > Len(s) THEN PFail
    ELSE IF s[i] = "{" THEN
        IF HasAt(s, SkipWs(s, i + 1), <<"}">>) THEN POk(JObj(<<>>), SkipWs(s, i + 1) + 1)
        ELSE ParseMembers(s, i + 1, <<>>)
    ELSE IF s[i] = "[" THEN
        IF HasAt(s, SkipWs(s, i + 1), <<"]">>) THEN POk(JArr(<<>>), SkipWs(s, i + 1) + 1)
        ELSE ParseElements(s, i + 1, <<>>)
    ELSE IF s[i] = QUOTE THEN ParseString(s, i)
    ELSE IF HasAt(s, i, <<"t", "r", "u", "e">>) THEN POk(JBool(TRUE), i + 4)
    ELSE IF HasAt(s, i, <<"f", "a", "l", "s", "e">>) THEN POk(JBool(FALSE), i + 5)
    ELSE IF HasAt(s, i, <<"n", "u", "l", "l">>) THEN POk(JNull, i + 4)
    ELSE IF s[i] = "-" \/ IsDigit(s[i]) THEN ParseNumber(s, i)
    ELSE PFail

\* the value at or after position i, whitespace skipped
ParseValue(s, i) == ValueAt(s, SkipWs(s, i))

\* the end of JSON.parse: only whitespace may follow the value
ParseEnd(s, r) ==
    IF r.ok /\ SkipWs(s, r.pos) = Len(s) + 1
    THEN [ok |-> TRUE, val |-> r.val]
    ELSE [ok |-> FALSE, val |-> JUndef]

\* JSON.parse(s): [ok, val]; ok = FALSE stands for the SyntaxError thrown
JSONParse(s) == ParseEnd(s, ParseValue(s, 1))

----------------------------------------------------------------------------
(* JSON.stringify and String(x): how the values above are written as text *)

RECURSIVE NatText(_)
NatText(n) ==
    IF n < 10 THEN <<Digits[n + 1]>>
    ELSE NatText(n \div 10) \o <<Digits[(n % 10) + 1]>>

NumText(x) ==
    (IF x.neg THEN <<"-">> ELSE <<>>)
        \o NatText(IF x.v < 0 THEN 0 - x.v ELSE x.v)
        \o (IF x.f = <<>> THEN <<>> ELSE <<".">> \o x.f)

RECURSIVE Escape(_)
\* the characters of s as a string literal holds them
Escape(s) ==
    IF s = <<>> THEN <<>>
    ELSE IF Len(s) = 1
    THEN (CASE s[1] = QUOTE -> <<BSLASH, QUOTE>>
            [] s[1] = BSLASH -> <<BSLASH, BSLASH>>
            [] s[1] = NL -> <<BSLASH, "n">>
            [] s[1] = "\t" -> <<BSLASH, "t">>
            [] s[1] = "\r" -> <<BSLASH, "r">>
            [] OTHER -> s)
    ELSE Escape(SubSeq(s, 1, Len(s) \div 2)) \o Escape(SubSeq(s, Len(s) \div 2 + 1, Len(s)))

RECURSIVE Stringify(_)
RECURSIVE StringifyList(_, _)
\* the members or elements xs written with commas between them
StringifyList(xs, isObj) ==
    IF xs = <<>> THEN <<>>
    ELSE (IF isObj
          THEN <<QUOTE>> \o Escape(xs[1][1]) \o <<QUOTE, ":">> \o Stringify(xs[1][2])
          ELSE Stringify(xs[1]))
         \o (IF Len(xs) > 1 THEN <<",">> ELSE <<>>)
         \o StringifyList(Tail(xs), isObj)

\* JSON.stringify(x) of a value JSON can hold
Stringify(x) ==
    CASE x.t = "null" -> <<"n", "u", "l", "l">>
      [] x.t = "bool" -> IF x.v THEN <<"t", "r", "u", "e">> ELSE <<"f", "a", "l", "s", "e">>
      [] x.t = "num" -> NumText(x)
      [] x.t = "str" -> <<QUOTE>> \o Escape(x.v) \o <<QUOTE>>
      [] x.t = "arr" -> <<"[">> \o StringifyList(x.v, FALSE) \o <<"]">>
      [] x.t = "obj" -> <<"{">> \o StringifyList(x.v, TRUE) \o <<"}">>

RECURSIVE ToStr(_)
RECURSIVE JoinStr(_)
JoinStr(xs) ==
    IF xs = <<>> THEN <<>>
    ELSE (IF xs[1].t \in {"null", "undefined"} THEN <<>> ELSE ToStr(xs[1]))
         \o (IF Len(xs) > 1 THEN <<",">> ELSE <<>>)
         \o JoinStr(Tail(xs))

\* String(x), as a template literal `${x}` converts x
ToStr(x) ==
    CASE x.t = "undefined" -> <<"u", "n", "d", "e", "f", "i", "n", "e", "d">>
      [] x.t = "null" -> <<"n", "u", "l", "l">>
      [] x.t = "bool" -> IF x.v THEN <<"t", "r", "u", "e">> ELSE <<"f", "a", "l", "s", "e">>
      [] x.t = "num" -> NumText(x)
      [] x.t = "str" -> x.v
      [] x.t = "arr" -> JoinStr(x.v)
      [] x.t = "obj" -> <<"[object Object]">>

----------------------------------------------------------------------------
(* Error messages.  A message is text in which every fixed piece of a       *)
(* template literal of the source is one element.                           *)

K_is_error == <<"i", "s", "_", "e", "r", "r", "o", "r">>
K_result == <<"r", "e", "s", "u", "l", "t">>
K_type == <<"t", "y", "p", "e">>
K_subtype == <<"s", "u", "b", "t", "y", "p", "e">>
K_cost_usd == <<"c", "o", "s", "t", "_", "u", "s", "d">>
K_duration_ms == <<"d", "u", "r", "a", "t", "i", "o", "n", "_", "m", "s">>
K_session_id == <<"s", "e", "s", "s", "i", "o", "n", "_", "i", "d">>

M_SyntaxError == "Unexpected token in JSON"
M_TypeError == "Cannot read properties"
M_ParseFailed == "Failed to parse CLI response: "
M_RawOutput == "\nRaw output: "
M_Ellipsis == "..."
M_RequestFailed == "Claude CLI request failed: "
M_UnknownError == "Unknown error"
M_NoResult == "No result content in Claude CLI response"

\* the bound of the raw text kept in the error of parseCliResponse
RawPreview == 500

Ok(x) == [ok |-> TRUE, val |-> x, err |-> <<>>]
Throw(m) == [ok |-> FALSE, val |-> JUndef, err |-> m]

\* the catch block of parseCliResponse: every error of the try block is
\* thrown again under the parse-failure message, with the raw text cut
\* a faulty catch block, which puts the whole raw output in the error
ParseCatchWhole(rawOutput, m) ==
    Throw(<<M_ParseFailed>> \o m \o <<M_RawOutput>> \o rawOutput \o <<M_Ellipsis>>)

ParseCatch(rawOutput, m) ==
    Throw(<<M_ParseFailed>> \o m \o <<M_RawOutput>>
          \o Substring(rawOutput, 0, RawPreview) \o <<M_Ellipsis>>)

\* a faulty try block, which tidies the result text before it returns it
ParseTryTrimmed(p) ==
    IF ~p.ok THEN Throw(<<M_SyntaxError>>)
    ELSE IF p.val.t = "null" THEN Throw(<<M_TypeError>>)
    ELSE IF Truthy(Get(p.val, K_is_error)) THEN Throw(<<M_RequestFailed, M_UnknownError>>)
    ELSE IF ~Truthy(Get(p.val, K_result)) THEN Throw(<<M_NoResult>>)
    ELSE IF Get(p.val, K_result).t = "str" THEN Ok(JStr(Trim(Get(p.val, K_result).v)))
    ELSE Ok(Get(p.val, K_result))

\* the try block of parseCliResponse after JSON.parse, which gave p
ParseTry(p) ==
    IF ~p.ok THEN Throw(<<M_SyntaxError>>)
    ELSE IF p.val.t = "null" THEN Throw(<<M_TypeError>>)
    ELSE IF Truthy(Get(p.val, K_is_error))
    THEN Throw(<<M_RequestFailed>>
               \o (IF Truthy(Get(p.val, K_result)) THEN ToStr(Get(p.val, K_result))
                   ELSE <<M_UnknownError>>))
    ELSE IF ~Truthy(Get(p.val, K_result)) THEN Throw(<<M_NoResult>>)
    ELSE Ok(Get(p.val, K_result))

\* try { ... } catch (parseError) { ... } of parseCliResponse; r is what the
\* try block returned or threw
ParseTryCatch(rawOutput, r) == IF r.ok THEN r ELSE ParseCatch(rawOutput, r.err)

\* ClaudeCliProvider.parseCliResponse(rawOutput)
parseCliResponse(rawOutput) == ParseTryCatch(rawOutput, ParseTry(JSONParse(rawOutput)))

----------------------------------------------------------------------------
(* extractJsonFromContent and its fallback strategies *)

M_ExtractFailed == "Could not extract valid JSON from content: "

\* the bound of the content kept in the error of extractJsonWithFallback
ContentPreview == 200

FENCE == <<TICK, TICK, TICK>>
JSONTAG == <<"j", "s", "o", "n">>

\* content.indexOf(ch), 0-based, -1 when ch is not in content
IndexOf(s, ch) ==
    IF \E k \in 1..Len(s) : s[k] = ch
    THEN (CHOOSE k \in 1..Len(s) : s[k] = ch /\ \A j \in 1..(k - 1) : s[j] /= ch) - 1
    ELSE 0 - 1

\* content.lastIndexOf(ch), 0-based, -1 when ch is not in content
LastIndexOf(s, ch) ==
    IF \E k \in 1..Len(s) : s[k] = ch
    THEN (CHOOSE k \in 1..Len(s) : s[k] = ch /\ \A j \in (k + 1)..Len(s) : s[j] /= ch) - 1
    ELSE 0 - 1

\* Strategy 1: JSON.parse(content.trim())
DirectParse(content) == JSONParse(Trim(content))

\* a faulty pattern, in which the json tag is not optional
FenceMatchesAtTagged(s, i) ==
    IF ~(HasAt(s, i, FENCE) /\ HasAt(s, i + 3, JSONTAG)) THEN {}
    ELSE { c \in {i + 7} \X (1..Len(s)) \X (1..Len(s)) :
             /\ c[2] >= c[1]
             /\ s[c[2]] = NL
             /\ \A w \in c[1]..(c[2] - 1) : IsWs(s[w])
             /\ c[3] > c[2]
             /\ s[c[3]] = NL
             /\ HasAt(s, c[3] + 1, FENCE)
             /\ \A d \in (c[2] + 1)..(c[3] - 1) :
                    ~(s[d] = NL /\ HasAt(s, d + 1, FENCE)) }

\* the ways /```(?:json)?\s*\n([\s\S]*?)\n```/ matches from position i on, as
\* <<a, n, e>>: the whitespace run begins at a (after the tag when a = i + 7),
\* its closing line feed is at n, the capture is s[n+1..e-1] and the closing
\* line feed is at e, the first one at or after n + 1 that a fence follows
FenceMatchesAt(s, i) ==
    IF ~HasAt(s, i, FENCE) THEN {}
    ELSE LET starts == IF HasAt(s, i + 3, JSONTAG) THEN {i + 7, i + 3} ELSE {i + 3}
         IN  { c \in starts \X (1..Len(s)) \X (1..Len(s)) :
                 /\ c[2] >= c[1]
                 /\ s[c[2]] = NL
                 /\ \A w \in c[1]..(c[2] - 1) : IsWs(s[w])
                 /\ c[3] > c[2]
                 /\ s[c[3]] = NL
                 /\ HasAt(s, c[3] + 1, FENCE)
                 /\ \A d \in (c[2] + 1)..(c[3] - 1) :
                        ~(s[d] = NL /\ HasAt(s, d + 1, FENCE)) }

\* content.match(codeBlockRegex): [found, capture].  The match is the one
\* at the leftmost position; there the regex engine tries the json tag before
\* no tag, then the longest whitespace run before shorter ones.
FenceMatch(s) ==
    LET at == {i \in 1..Len(s) : FenceMatchesAt(s, i) /= {}}
    IN  IF at = {} THEN [found |-> FALSE, capture |-> <<>>]
        ELSE LET i == CHOOSE k \in at : \A j \in at : k <= j
                 ms == FenceMatchesAt(s, i)
                 m == CHOOSE x \in ms : \A y \in ms :
                        \/ x[1] > y[1]
                        \/ (x[1] = y[1] /\ x[2] >= y[2])
             IN  [found |-> TRUE, capture |-> SubSeq(s, m[2] + 1, m[3] - 1)]

\* Strategy 2: the interior of the first fenced code block
CodeBlockTry(match) ==
    IF match.found THEN JSONParse(Trim(match.capture))
    ELSE [ok |-> FALSE, val |-> JUndef]

CodeBlockParse(content) == CodeBlockTry(FenceMatch(content))

\* a faulty strategy 3, which does not look at what indexOf returned
BraceParseUnguarded(content) ==
    JSONParse(Substring(content, IndexOf(content, "{"), LastIndexOf(content, "}") + 1))

\* a faulty strategy 3, which stops at the first "}"
BraceParseFirstClose(content) ==
    LET firstBrace == IndexOf(content, "{")
        lastBrace == IndexOf(content, "}")
    IN  IF firstBrace = 0 - 1 \/ lastBrace = 0 - 1 \/ firstBrace >= lastBrace
        THEN [ok |-> FALSE, val |-> JUndef]
        ELSE JSONParse(Substring(content, firstBrace, lastBrace + 1))

\* a faulty strategy 3, which takes the text from the first "[" to the last "]"
BraceParseBrackets(content) ==
    LET firstBrace == IndexOf(content, "[")
        lastBrace == LastIndexOf(content, "]")
    IN  IF firstBrace = 0 - 1 \/ lastBrace = 0 - 1 \/ firstBrace >= lastBrace
        THEN [ok |-> FALSE, val |-> JUndef]
        ELSE JSONParse(Substring(content, firstBrace, lastBrace + 1))

\* Strategy 3: from the first "{" to the last "}"
BraceParse(content) ==
    LET firstBrace == IndexOf(content, "{")
        lastBrace == LastIndexOf(content, "}")
    IN  IF firstBrace = 0 - 1 \/ lastBrace = 0 - 1 \/ firstBrace >= lastBrace
        THEN [ok |-> FALSE, val |-> JUndef]
        ELSE JSONParse(Substring(content, firstBrace, lastBrace + 1))

\* a faulty loop, which runs the brace strategy before the code block one
FirstSuccessBraceFirst(content, s2, s3) ==
    IF s3.ok THEN Ok(s3.val)
    ELSE IF s2.ok THEN Ok(s2.val)
    ELSE Throw(<<M_ExtractFailed>> \o Substring(content, 0, ContentPreview)
               \o <<M_Ellipsis>>)

\* for (const strategy of strategies): s2 and s3 are what the code block
\* strategy and the brace strategy give; the first that succeeds returns
FirstSuccess(content, s2, s3) ==
    IF s2.ok THEN Ok(s2.val)
    ELSE IF s3.ok THEN Ok(s3.val)
    ELSE Throw(<<M_ExtractFailed>> \o Substring(content, 0, ContentPreview)
               \o <<M_Ellipsis>>)

\* extractJsonWithFallback(content) for a string
extractJsonWithFallback(content) ==
    FirstSuccess(content, CodeBlockParse(content), BraceParse(content))

\* try { return JSON.parse(content.trim()) } catch { fallback }
DirectOrFallback(content, s1) ==
    IF s1.ok THEN Ok(s1.val) ELSE extractJsonWithFallback(content)

\* extractJsonFromContent(content), content any value parseCliResponse
\* returns.  A value that is no string has no trim, match, or substring:
\* the strategies' TypeErrors are caught, the last one is thrown.
extractJsonFromContent(content) ==
    IF content.t /= "str" THEN Throw(<<M_TypeError>>)
    ELSE DirectOrFallback(content.v, DirectParse(content.v))

\* the strategies the loop of extractJsonWithFallback invokes, s2 being what
\* the code block strategy gives: the loop goes on only when one has thrown
FallbackTried(s2) == IF s2.ok THEN <<2>> ELSE <<2, 3>>

\* the strategies extractJsonFromContent invokes for a string, in order:
\* the direct parse, and the fallback ones only in its catch block
StrategiesTried(content) ==
    IF DirectParse(content).ok THEN <<1>>
    ELSE <<1>> \o FallbackTried(CodeBlockParse(content))

----------------------------------------------------------------------------
(* Zod schemas and schema.parse *)

K_id == <<"i", "d">>
K_title == <<"t", "i", "t", "l", "e">>
K_description == <<"d", "e", "s", "c", "r", "i", "p", "t", "i", "o", "n">>
K_details == <<"d", "e", "t", "a", "i", "l", "s">>
K_testStrategy == <<"t", "e", "s", "t", "S", "t", "r", "a", "t", "e", "g", "y">>
K_priority == <<"p", "r", "i", "o", "r", "i", "t", "y">>
K_dependencies == <<"d", "e", "p", "e", "n", "d", "e", "n", "c", "i", "e", "s">>
K_status == <<"s", "t", "a", "t", "u", "s">>
K_tasks == <<"t", "a", "s", "k", "s">>
K_metadata == <<"m", "e", "t", "a", "d", "a", "t", "a">>
K_projectName == <<"p", "r", "o", "j", "e", "c", "t", "N", "a", "m", "e">>
K_totalTasks == <<"t", "o", "t", "a", "l", "T", "a", "s", "k", "s">>
K_sourceFile == <<"s", "o", "u", "r", "c", "e", "F", "i", "l", "e">>
K_generatedAt == <<"g", "e", "n", "e", "r", "a", "t", "e", "d", "A", "t">>
K_taskId == <<"t", "a", "s", "k", "I", "d">>
K_taskTitle == <<"t", "a", "s", "k", "T", "i", "t", "l", "e">>
K_complexityScore == <<"c", "o", "m", "p", "l", "e", "x", "i", "t", "y", "S", "c", "o", "r", "e">>
K_recommendedSubtasks == <<"r", "e", "c", "o", "m", "m", "e", "n", "d", "e", "d", "S", "u", "b", "t", "a", "s", "k", "s">>
K_expansionPrompt == <<"e", "x", "p", "a", "n", "s", "i", "o", "n", "P", "r", "o", "m", "p", "t">>
K_reasoning == <<"r", "e", "a", "s", "o", "n", "i", "n", "g">>
K_subtasks == <<"s", "u", "b", "t", "a", "s", "k", "s">>

W_high == <<"h", "i", "g", "h">>
W_medium == <<"m", "e", "d", "i", "u", "m">>
W_low == <<"l", "o", "w">>
W_pending == <<"p", "e", "n", "d", "i", "n", "g">>

ZString(n) == [k |-> "string", min |-> n]
ZNumber == [k |-> "number", int |-> FALSE, positive |-> FALSE,
            hasMin |-> FALSE, min |-> 0, hasMax |-> FALSE, max |-> 0]
ZInt(s) == [s EXCEPT !.int = TRUE]
ZPositive(s) == [s EXCEPT !.positive = TRUE]
ZMin(s, n) == [s EXCEPT !.hasMin = TRUE, !.min = n]
ZMax(s, n) == [s EXCEPT !.hasMax = TRUE, !.max = n]
ZEnum(options) == [k |-> "enum", options |-> options]
ZOptional(s) == [k |-> "optional", inner |-> s]
ZDefault(s, d) == [k |-> "default", inner |-> s, def |-> d]
ZArray(s) == [k |-> "array", elem |-> s]
ZObject(shape) == [k |-> "object", shape |-> shape]

ZOk(x) == [ok |-> TRUE, val |-> x, issues |-> <<>>]
ZFail(issues) == [ok |-> FALSE, val |-> JUndef, issues |-> issues]
ZIssue(code, path) == ZFail(<<[code |-> code, path |-> path]>>)

\* x >= n and x <= n for a number value x and an integer n
NumGe(x, n) == IF x.neg THEN x.v >= n /\ (x.f = <<>> \/ x.v > n) ELSE x.v >= n
NumLe(x, n) == IF x.neg THEN x.v <= n ELSE x.v < n \/ (x.v = n /\ x.f = <<>>)
NumIsInt(x) == x.f = <<>>
NumPositive(x) == ~x.neg /\ (x.v > 0 \/ x.f /= <<>>)

\* the checks of a number schema, each of which adds its issue
NumberIssues(s, x, path) ==
    (IF s.int /\ ~NumIsInt(x) THEN <<[code |-> "invalid_type", path |-> path]>> ELSE <<>>)
    \o (IF s.positive /\ ~NumPositive(x)
        THEN <<[code |-> "too_small", path |-> path]>> ELSE <<>>)
    \o (IF s.hasMin /\ ~NumGe(x, s.min)
        THEN <<[code |-> "too_small", path |-> path]>> ELSE <<>>)
    \o (IF s.hasMax /\ ~NumLe(x, s.max)
        THEN <<[code |-> "too_big", path |-> path]>> ELSE <<>>)

RECURSIVE ZodParse(_, _, _)
RECURSIVE ZodFields(_, _, _, _)
RECURSIVE ZodElements(_, _, _, _)

\* a faulty parser, which stops at the first member that has an issue
RECURSIVE ZodFieldsFirstIssue(_, _, _, _)
ZodFieldsFirstIssue(shape, x, path, acc) ==
    IF shape = <<>> THEN ZOk(JObj(acc.val))
    ELSE LET key == shape[1][1]
             r == ZodParse(shape[1][2], Get(x, key), path \o <<"/">> \o key)
         IN  IF ~r.ok THEN r
             ELSE ZodFieldsFirstIssue(Tail(shape), x, path,
                       [val |-> IF r.val.t = "undefined" /\ ~HasKey(x, key)
                                THEN acc.val
                                ELSE Append(acc.val, <<key, r.val>>),
                        issues |-> <<>>,
                        n |-> acc.n + 1])

\* the members of an object schema that are left to parse; acc holds the
\* parsed members and the issues found so far.  Keys the schema does not
\* name are left out of the parsed object.
ZodFields(shape, x, path, acc) ==
    IF shape = <<>>
    THEN IF acc.issues = <<>> THEN ZOk(JObj(acc.val)) ELSE ZFail(acc.issues)
    ELSE LET key == shape[1][1]
             r == ZodParse(shape[1][2], Get(x, key), path \o <<"/">> \o key)
         IN  ZodFields(Tail(shape), x, path,
                       [val |-> IF ~r.ok \/ (r.val.t = "undefined" /\ ~HasKey(x, key))
                                THEN acc.val
                                ELSE Append(acc.val, <<key, r.val>>),
                        issues |-> acc.issues \o r.issues,
                        n |-> acc.n + 1])

\* the elements of an array that are left to parse; acc.n of them are done
ZodElements(s, xs, path, acc) ==
    IF acc.n = Len(xs)
    THEN IF acc.issues = <<>> THEN ZOk(JArr(acc.val)) ELSE ZFail(acc.issues)
    ELSE LET r == ZodParse(s, xs[acc.n + 1], path \o <<"/">> \o NatText(acc.n))
         IN  ZodElements(s, xs, path,
                         [val |-> IF r.ok THEN Append(acc.val, r.val) ELSE acc.val,
                          issues |-> acc.issues \o r.issues,
                          n |-> acc.n + 1])

\* schema.safeParse(x): the parsed value, or the issues and their paths
ZodParse(s, x, path) ==
    CASE s.k = "default" ->
            IF x.t = "undefined" THEN ZodParse(s.inner, s.def, path)
            ELSE ZodParse(s.inner, x, path)
      [] s.k = "optional" ->
            IF x.t = "undefined" THEN ZOk(JUndef) ELSE ZodParse(s.inner, x, path)
      [] s.k = "string" ->
            IF x.t /= "str" THEN ZIssue("invalid_type", path)
            ELSE IF Len(x.v) < s.min THEN ZIssue("too_small", path)
            ELSE ZOk(x)
      [] s.k = "number" ->
            IF x.t /= "num" THEN ZIssue("invalid_type", path)
            ELSE IF NumberIssues(s, x, path) /= <<>> THEN ZFail(NumberIssues(s, x, path))
            ELSE ZOk(x)
      [] s.k = "enum" ->
            IF x.t /= "str" THEN ZIssue("invalid_type", path)
            ELSE IF \E k \in 1..Len(s.options) : s.options[k] = x.v THEN ZOk(x)
            ELSE ZIssue("invalid_enum_value", path)
      [] s.k = "array" ->
            IF x.t /= "arr" THEN ZIssue("invalid_type", path)
            ELSE ZodElements(s.elem, x.v, path, [val |-> <<>>, issues |-> <<>>, n |-> 0])
      [] s.k = "object" ->
            IF x.t /= "obj" THEN ZIssue("invalid_type", path)
            ELSE ZodFields(s.shape, x, path, [val |-> <<>>, issues |-> <<>>, n |-> 0])

\* the message of a ZodError: its issues one after the other, each with
\* the path of the value it is about
RECURSIVE IssuesText(_)
IssuesText(issues) ==
    IF issues = <<>> THEN <<>>
    ELSE <<issues[1].code>> \o issues[1].path \o <<";">> \o IssuesText(Tail(issues))

\* a faulty schema, whose optional members have no default
prdSingleTaskSchemaNoDefault ==
    ZObject(<< <<K_id, ZPositive(ZInt(ZNumber))>>,
               <<K_title, ZString(1)>>,
               <<K_description, ZString(1)>>,
               <<K_details, ZOptional(ZString(0))>>,
               <<K_testStrategy, ZOptional(ZString(0))>>,
               <<K_priority, ZOptional(ZEnum(<<W_high, W_medium, W_low>>))>>,
               <<K_dependencies, ZOptional(ZArray(ZPositive(ZInt(ZNumber))))>>,
               <<K_status, ZOptional(ZString(0))>> >>)

prdSingleTaskSchema ==
    ZObject(<< <<K_id, ZPositive(ZInt(ZNumber))>>,
               <<K_title, ZString(1)>>,
               <<K_description, ZString(1)>>,
               <<K_details, ZDefault(ZOptional(ZString(0)), JStr(<<>>))>>,
               <<K_testStrategy, ZDefault(ZOptional(ZString(0)), JStr(<<>>))>>,
               <<K_priority, ZDefault(ZEnum(<<W_high, W_medium, W_low>>), JStr(W_medium))>>,
               <<K_dependencies,
                 ZDefault(ZOptional(ZArray(ZPositive(ZInt(ZNumber)))), JArr(<<>>))>>,
               <<K_status, ZDefault(ZOptional(ZString(0)), JStr(W_pending))>> >>)

prdResponseSchema ==
    ZObject(<< <<K_tasks, ZArray(prdSingleTaskSchema)>>,
               <<K_metadata,
                 ZObject(<< <<K_projectName, ZString(0)>>,
                            <<K_totalTasks, ZNumber>>,
                            <<K_sourceFile, ZString(0)>>,
                            <<K_generatedAt, ZString(0)>> >>)>> >>)

\* a faulty schema, which takes whole scores only
complexityAnalysisItemSchemaInt ==
    ZObject(<< <<K_taskId, ZNumber>>,
               <<K_taskTitle, ZString(0)>>,
               <<K_complexityScore, ZInt(ZMax(ZMin(ZNumber, 1), 10))>>,
               <<K_recommendedSubtasks, ZNumber>>,
               <<K_expansionPrompt, ZString(0)>>,
               <<K_reasoning, ZString(0)>> >>)

complexityAnalysisItemSchema ==
    ZObject(<< <<K_taskId, ZNumber>>,
               <<K_taskTitle, ZString(0)>>,
               <<K_complexityScore, ZMax(ZMin(ZNumber, 1), 10)>>,
               <<K_recommendedSubtasks, ZNumber>>,
               <<K_expansionPrompt, ZString(0)>>,
               <<K_reasoning, ZString(0)>> >>)

complexityAnalysisSchema == ZArray(complexityAnalysisItemSchema)

\* task-manager/expand-task.js is not part of the sources: the subtask
\* shape is the one the specification's table gives for task expansion
subtaskWrapperSchema ==
    ZObject(<< <<K_subtasks,
                 ZArray(ZObject(<< <<K_id, ZPositive(ZInt(ZNumber))>>,
                                   <<K_title, ZString(5)>>,
                                   <<K_description, ZString(10)>>,
                                   <<K_details, ZString(20)>>,
                                   <<K_status,
                                     ZDefault(ZOptional(ZString(0)), JStr(W_pending))>> >>))>> >>)

\* task-manager/add-task.js is not part of the sources: one task object of
\* the shape the specification's table gives for the tasks of a task set
AiTaskDataSchema == prdSingleTaskSchema

----------------------------------------------------------------------------
(* The provider, its callers and the child processes *)

\* the callers of the shared provider: each makes one call after the other,
\* and the calls of different callers may overlap in time
Callers == {"c1", "c2"}

Operations == {"generateTasksFromPrd", "expandTask", "addTask",
               "analyzeComplexity", "updateSubtask"}

VARIABLES
    isAvailable,  \* claudeCliProvider.isAvailable: "null", "true" or "false"
    call,         \* per caller: where its async function stands, and its result
    proc,         \* per caller: the child and the closure of its executeCommand
    hist,         \* what was observed of the provider since it was constructed
    parsePc,      \* the direct call of parseCliResponse: "off", "ready", "done"
    parseEnv,     \* the value the tool wrote as its output
    parseRaw,     \* the raw output handed to parseCliResponse
    parseRes,     \* what parseCliResponse returned or threw
    tried         \* the extraction strategies that were invoked, in order

vars == <<isAvailable, call, proc, hist, parsePc, parseEnv, parseRaw, parseRes, tried>>

pureVars == <<parsePc, parseEnv, parseRaw, parseRes, tried>>

DefaultTimeout == 120000
ProbeTimeout == 5000
ValidatorTimeout == 30000

M_NotAvailable == "Claude CLI not available: "
M_Ms == "ms"
M_Colon == ": "
M_ENOENT == "spawn ENOENT"
M_TimedOut(impl) ==
    IF impl = "provider" THEN "Claude CLI command timed out after "
    ELSE "Command timed out after "
M_Exited(impl) ==
    IF impl = "provider" THEN "Claude CLI exited with code "
    ELSE "Command exited with code "
M_SpawnFailed(impl) ==
    IF impl = "provider" THEN "Failed to spawn Claude CLI: "
    ELSE "Failed to spawn command: "
M_ValidationFailed(kind) ==
    CASE kind = "generateTasksFromPrd" -> "Generated tasks failed validation: "
      [] kind = "expandTask" -> "Generated subtasks failed validation: "
      [] kind = "addTask" -> "Generated task failed validation: "
      [] kind = "analyzeComplexity" -> "Generated complexity analysis failed validation: "

K_mainResult == <<"m", "a", "i", "n", "R", "e", "s", "u", "l", "t">>
K_success == <<"s", "u", "c", "c", "e", "s", "s">>

NoProc ==
    [phase |-> "none", impl |-> "provider", purpose |-> "none", args |-> <<>>,
     timeout |-> 0, timer |-> "unset", kills |-> 0, signalled |-> FALSE,
     code |-> JUndef, script |-> <<>>, errScript |-> <<>>,
     stdout |-> <<>>, stderr |-> <<>>,
     input |-> <<>>, stdin |-> <<>>, stdinWrites |-> 0, stdinEnds |-> 0,
     errorPending |-> FALSE, promise |-> "none", outcome |-> Ok(JUndef)]

NoCall ==
    [kind |-> "none", pc |-> "idle", stages |-> <<>>, probes |-> 0, spawns |-> 0,
     timeout |-> 0, result |-> Ok(JUndef)]

\* the calls executeCommand makes on claude.stdin, in order
StdinCalls(input) ==
    (IF input /= <<>> THEN <<[op |-> "write", data |-> input]>> ELSE <<>>)
    \o <<[op |-> "end", data |-> <<>>]>>

\* a faulty executeCommand, which ends stdin only after it wrote to it
SpawnedEndInsideIf(impl, purpose, args, input, timeout, env) ==
    [phase |-> IF env.spawnOk THEN "running" ELSE "failed",
     impl |-> impl, purpose |-> purpose, args |-> args,
     timeout |-> timeout,
     timer |-> IF timeout > 0 THEN "armed" ELSE "unset",
     kills |-> 0, signalled |-> FALSE, code |-> JUndef,
     script |-> IF env.spawnOk THEN env.script ELSE <<>>,
     errScript |-> IF env.spawnOk THEN env.errScript ELSE <<>>,
     stdout |-> <<>>, stderr |-> <<>>,
     input |-> input,
     stdin |-> IF input /= <<>> THEN StdinCalls(input) ELSE <<>>,
     stdinWrites |-> IF input /= <<>> THEN 1 ELSE 0,
     stdinEnds |-> IF input /= <<>> THEN 1 ELSE 0,
     errorPending |-> ~env.spawnOk,
     promise |-> "pending", outcome |-> Ok(JUndef)]

\* a faulty executeCommand, which arms the timer for a deadline of zero too
SpawnedArmsAtZero(impl, purpose, args, input, timeout, env) ==
    [phase |-> IF env.spawnOk THEN "running" ELSE "failed",
     impl |-> impl, purpose |-> purpose, args |-> args,
     timeout |-> timeout,
     timer |-> IF timeout >= 0 THEN "armed" ELSE "unset",
     kills |-> 0, signalled |-> FALSE, code |-> JUndef,
     script |-> IF env.spawnOk THEN env.script ELSE <<>>,
     errScript |-> IF env.spawnOk THEN env.errScript ELSE <<>>,
     stdout |-> <<>>, stderr |-> <<>>,
     input |-> input,
     stdin |-> StdinCalls(input),
     stdinWrites |-> IF input /= <<>> THEN 1 ELSE 0,
     stdinEnds |-> 1,
     errorPending |-> ~env.spawnOk,
     promise |-> "pending", outcome |-> Ok(JUndef)]

\* the synchronous part of executeCommand: spawn, arm the timer, register
\* the handlers, write the input and end stdin.  env is what the operating
\* system and the child make of it.
Spawned(impl, purpose, args, input, timeout, env) ==
    [phase |-> IF env.spawnOk THEN "running" ELSE "failed",
     impl |-> impl, purpose |-> purpose, args |-> args,
     timeout |-> timeout,
     timer |-> IF timeout > 0 THEN "armed" ELSE "unset",
     kills |-> 0, signalled |-> FALSE, code |-> JUndef,
     script |-> IF env.spawnOk THEN env.script ELSE <<>>,
     errScript |-> IF env.spawnOk THEN env.errScript ELSE <<>>,
     stdout |-> <<>>, stderr |-> <<>>,
     input |-> input,
     stdin |-> StdinCalls(input),
     stdinWrites |-> IF input /= <<>> THEN 1 ELSE 0,
     stdinEnds |-> 1,
     errorPending |-> ~env.spawnOk,
     promise |-> "pending", outcome |-> Ok(JUndef)]

\* a faulty promise, which a later resolve or reject settles again
SettleAlways(p, o) ==
    [p EXCEPT !.promise = IF o.ok THEN "resolved" ELSE "rejected", !.outcome = o]

\* resolve(x) or reject(e) of the promise of executeCommand: only the first
\* of them settles it
Settle(p, o) ==
    IF p.promise = "pending"
    THEN [p EXCEPT !.promise = IF o.ok THEN "resolved" ELSE "rejected", !.outcome = o]
    ELSE p

\* a faulty handler, which leaves the timer armed
ClearTimerNot(p) == p

\* if (timeoutId) clearTimeout(timeoutId)
ClearTimer(p) == [p EXCEPT !.timer = IF @ = "armed" THEN "cleared" ELSE @]

\* a faulty setTimeout callback, which rejects and leaves the child alone
OnTimeoutNoKill(p) ==
    Settle([p EXCEPT !.timer = "fired"],
           Throw(<<M_TimedOut(p.impl)>> \o NatText(p.timeout) \o <<M_Ms>>))

\* a faulty setTimeout callback, which signals the child and does not reject
OnTimeoutNoReject(p) ==
    [p EXCEPT !.timer = "fired",
              !.kills = @ + 1,
              !.signalled = @ \/ p.phase = "running"]

\* the setTimeout callback: claude.kill('SIGTERM'), then reject
OnTimeout(p) ==
    Settle([p EXCEPT !.timer = "fired",
                     !.kills = @ + 1,
                     !.signalled = @ \/ p.phase = "running"],
           Throw(<<M_TimedOut(p.impl)>> \o NatText(p.timeout) \o <<M_Ms>>))

\* a faulty 'close' handler, which resolves with the two streams together
OnCloseMixed(p, code) ==
    Settle([ClearTimer(p) EXCEPT !.phase = "closed", !.code = code],
           IF code = JNum(0) THEN Ok(JStr(p.stdout \o p.stderr))
           ELSE Throw(<<M_Exited(p.impl)>> \o ToStr(code)
                      \o (IF p.stderr /= <<>> THEN <<M_Colon>> \o p.stderr ELSE <<>>)))

\* a faulty 'close' handler, which leaves the stderr text out of the error
OnCloseNoStderr(p, code) ==
    Settle([ClearTimer(p) EXCEPT !.phase = "closed", !.code = code],
           IF code = JNum(0) THEN Ok(JStr(p.stdout))
           ELSE Throw(<<M_Exited(p.impl)>> \o ToStr(code)))

\* the 'close' handler
OnClose(p, code) ==
    Settle([ClearTimer(p) EXCEPT !.phase = "closed", !.code = code],
           IF code = JNum(0) THEN Ok(JStr(p.stdout))
           ELSE Throw(<<M_Exited(p.impl)>> \o ToStr(code)
                      \o (IF p.stderr /= <<>> THEN <<M_Colon>> \o p.stderr ELSE <<>>)))

\* the 'error' handler
OnError(p) ==
    Settle([ClearTimer(p) EXCEPT !.errorPending = FALSE],
           Throw(<<M_SpawnFailed(p.impl), M_ENOENT>>))

\* the schema an operation validates its document with
SchemaOf(kind) ==
    CASE kind = "generateTasksFromPrd" -> prdResponseSchema
      [] kind = "expandTask" -> subtaskWrapperSchema
      [] kind = "addTask" -> AiTaskDataSchema
      [] kind = "analyzeComplexity" -> complexityAnalysisSchema

Wrapped(x) == JObj(<< <<K_mainResult, x>>, <<K_success, JBool(TRUE)>> >>)

StageTrace(oks) ==
    [k \in 1..Len(oks) |-> [name |-> <<"parse", "extract", "validate">>[k], ok |-> oks[k]]]

\* the try block around schema.parse: the validated document wrapped with
\* the success flag, or the validation error of the operation
AfterValidate(kind, v) ==
    IF ~v.ok
    THEN [stages |-> StageTrace(<<TRUE, TRUE, FALSE>>),
          result |-> Throw(<<M_ValidationFailed(kind)>> \o IssuesText(v.issues))]
    ELSE [stages |-> StageTrace(<<TRUE, TRUE, TRUE>>),
          result |-> Ok(Wrapped(IF kind = "expandTask" THEN Get(v.val, K_subtasks)
                                ELSE v.val))]

\* a faulty operation, which returns the extracted document as it is
AfterExtractUnchecked(kind, doc) ==
    IF ~doc.ok THEN [stages |-> StageTrace(<<TRUE, FALSE>>), result |-> Throw(doc.err)]
    ELSE [stages |-> StageTrace(<<TRUE, TRUE, TRUE>>), result |-> Ok(Wrapped(doc.val))]

\* const jsonResponse = this.extractJsonFromContent(aiContent), and on
AfterExtract(kind, doc) ==
    IF ~doc.ok THEN [stages |-> StageTrace(<<TRUE, FALSE>>), result |-> Throw(doc.err)]
    ELSE AfterValidate(kind, ZodParse(SchemaOf(kind), doc.val, <<>>))

\* a faulty provider, whose updateSubtask extracts a document from the
\* text as the other operations do
AfterParseExtractAll(kind, parsed) ==
    IF ~parsed.ok THEN [stages |-> StageTrace(<<FALSE>>), result |-> Throw(parsed.err)]
    ELSE IF kind = "updateSubtask"
    THEN IF extractJsonFromContent(parsed.val).ok
         THEN [stages |-> StageTrace(<<TRUE, TRUE>>),
               result |-> Ok(Wrapped(extractJsonFromContent(parsed.val).val))]
         ELSE [stages |-> StageTrace(<<TRUE, FALSE>>),
               result |-> Throw(extractJsonFromContent(parsed.val).err)]
    ELSE AfterExtract(kind, extractJsonFromContent(parsed.val))

\* const aiContent = this.parseCliResponse(rawOutput), and on
AfterParse(kind, parsed) ==
    IF ~parsed.ok THEN [stages |-> StageTrace(<<FALSE>>), result |-> Throw(parsed.err)]
    ELSE IF kind = "updateSubtask"
    THEN [stages |-> StageTrace(<<TRUE>>), result |-> Ok(Wrapped(parsed.val))]
    ELSE AfterExtract(kind, extractJsonFromContent(parsed.val))

\* what an operation does with the raw output once executeCommand resolved:
\* [stages, result], the stages it ran and what it returns or throws
Pipeline(kind, rawOutput) == AfterParse(kind, parseCliResponse(rawOutput))

\* the first implementation of the bridge has generateTasksFromPrd only, and
\* its parseCliResponse and extractJsonFromContent are the ones above.  Its
\* try block around prdResponseSchema.parse returns the validated document.
AfterValidate1(v) ==
    IF ~v.ok
    THEN [stages |-> StageTrace(<<TRUE, TRUE, FALSE>>),
          result |-> Throw(<<M_ValidationFailed("generateTasksFromPrd")>>
                           \o IssuesText(v.issues))]
    ELSE [stages |-> StageTrace(<<TRUE, TRUE, TRUE>>), result |-> Ok(v.val)]

\* its generateTasksFromPrd once executeCommand resolved with rawOutput
Pipeline1(rawOutput) ==
    LET parsed == parseCliResponse(rawOutput)
        doc == extractJsonFromContent(parsed.val)
    IN  IF ~parsed.ok
        THEN [stages |-> StageTrace(<<FALSE>>), result |-> Throw(parsed.err)]
        ELSE IF ~doc.ok
        THEN [stages |-> StageTrace(<<TRUE, FALSE>>), result |-> Throw(doc.err)]
        ELSE AfterValidate1(ZodParse(prdResponseSchema, doc.val, <<>>))

\* the two implementations of the bridge: the one with its prompts inline,
\* and the one that shares the prompt generators of the task manager
Implementations == {"inline", "shared"}

OperationsOf(impl) == IF impl = "inline" THEN {"generateTasksFromPrd"} ELSE Operations

\* what an operation of implementation impl returns or throws once
\* executeCommand resolved with rawOutput
OperationResult(impl, kind, rawOutput) ==
    IF impl = "inline" THEN Pipeline1(rawOutput).result
    ELSE Pipeline(kind, rawOutput).result

----------------------------------------------------------------------------
(* What the child processes write *)

\* the most data events one stream's output arrives in
MaxChunks == 2

RECURSIVE Pieces(_, _, _)
\* the pieces k..n of text cut into n near-equal pieces, empty ones left out
Pieces(text, n, k) ==
    IF k > n THEN <<>>
    ELSE LET piece == SubSeq(text, ((k - 1) * Len(text)) \div n + 1,
                             (k * Len(text)) \div n)
         IN  (IF piece = <<>> THEN <<>> ELSE <<piece>>) \o Pieces(text, n, k + 1)

Chunkings(text) == { Pieces(text, n, 1) : n \in 1..MaxChunks }

T_version == <<"1", ".", "0", ".", "3", SP, "(", "C", "l", "a", "u", "d", "e", ")", NL>>
T_stderr == <<"b", "a", "d", SP, "f", "l", "a", "g">>
T_input == <<"h", "i">>
T_garbage == <<"E", "r", "r", "o", "r", ":", SP, "o", "o", "p", "s">>
T_boom == <<"b", "o", "o", "m">>
T_prose == <<"D", "o", "n", "e", ",", SP, "n", "o", SP, "d", "a", "t", "a", ".">>
T_smallDoc == <<"{", QUOTE, "a", QUOTE, ":", "1", "}">>
T_prdDoc == <<"{", QUOTE, "t", "a", "s", "k", "s", QUOTE, ":", "[", "{", QUOTE, "i", "d", QUOTE, ":", "1", ",", QUOTE, "t", "i", "t", "l", "e", QUOTE, ":", QUOTE, "T", QUOTE, ",", QUOTE, "d", "e", "s", "c", "r", "i", "p", "t", "i", "o", "n", QUOTE, ":", QUOTE, "D", QUOTE, "}", "]", ",", QUOTE, "m", "e", "t", "a", "d", "a", "t", "a", QUOTE, ":", "{", QUOTE, "p", "r", "o", "j", "e", "c", "t", "N", "a", "m", "e", QUOTE, ":", QUOTE, "P", QUOTE, ",", QUOTE, "t", "o", "t", "a", "l", "T", "a", "s", "k", "s", QUOTE, ":", "1", ",", QUOTE, "s", "o", "u", "r", "c", "e", "F", "i", "l", "e", QUOTE, ":", QUOTE, "f", QUOTE, ",", QUOTE, "g", "e", "n", "e", "r", "a", "t", "e", "d", "A", "t", QUOTE, ":", QUOTE, "d", QUOTE, "}", "}">>
T_subtaskDoc == <<"{", QUOTE, "s", "u", "b", "t", "a", "s", "k", "s", QUOTE, ":", "[", "{", QUOTE, "i", "d", QUOTE, ":", "1", ",", QUOTE, "t", "i", "t", "l", "e", QUOTE, ":", QUOTE, "S", "e", "t", "u", "p", QUOTE, ",", QUOTE, "d", "e", "s", "c", "r", "i", "p", "t", "i", "o", "n", QUOTE, ":", QUOTE, "S", "e", "t", SP, "i", "t", SP, "u", "p", ".", QUOTE, ",", QUOTE, "d", "e", "t", "a", "i", "l", "s", QUOTE, ":", QUOTE, "I", "n", "s", "t", "a", "l", "l", SP, "a", "n", "d", SP, "c", "o", "n", "f", "i", "g", "u", "r", "e", ".", QUOTE, "}", "]", "}">>
T_taskDoc == <<"{", QUOTE, "i", "d", QUOTE, ":", "2", ",", QUOTE, "t", "i", "t", "l", "e", QUOTE, ":", QUOTE, "T", QUOTE, ",", QUOTE, "d", "e", "s", "c", "r", "i", "p", "t", "i", "o", "n", QUOTE, ":", QUOTE, "D", QUOTE, ",", QUOTE, "p", "r", "i", "o", "r", "i", "t", "y", QUOTE, ":", QUOTE, "h", "i", "g", "h", QUOTE, "}">>
T_complexityDoc == <<"[", "{", QUOTE, "t", "a", "s", "k", "I", "d", QUOTE, ":", "1", ",", QUOTE, "t", "a", "s", "k", "T", "i", "t", "l", "e", QUOTE, ":", QUOTE, "T", QUOTE, ",", QUOTE, "c", "o", "m", "p", "l", "e", "x", "i", "t", "y", "S", "c", "o", "r", "e", QUOTE, ":", "5", ",", QUOTE, "r", "e", "c", "o", "m", "m", "e", "n", "d", "e", "d", "S", "u", "b", "t", "a", "s", "k", "s", QUOTE, ":", "3", ",", QUOTE, "e", "x", "p", "a", "n", "s", "i", "o", "n", "P", "r", "o", "m", "p", "t", QUOTE, ":", QUOTE, "p", QUOTE, ",", QUOTE, "r", "e", "a", "s", "o", "n", "i", "n", "g", QUOTE, ":", QUOTE, "r", QUOTE, "}", "]">>
T_uuid == <<"u", "-", "1">>
T_resultWord == <<"r", "e", "s", "u", "l", "t">>
T_successWord == <<"s", "u", "c", "c", "e", "s", "s">>

\* the envelope the tool writes (--output-format json), members left out
\* when their value is undefined
Envelope(isError, result, extras) ==
    JObj(SelectSeq(<< <<K_type, JStr(T_resultWord)>>,
                      <<K_subtype, JStr(T_successWord)>>,
                      <<K_cost_usd, IF extras = "all" THEN JFrac(0, <<"0", "1">>, FALSE)
                                    ELSE IF extras = "odd" THEN JStr(T_boom) ELSE JUndef>>,
                      <<K_is_error, isError>>,
                      <<K_duration_ms, IF extras = "all" THEN JNum(2115)
                                       ELSE IF extras = "odd" THEN JNull ELSE JUndef>>,
                      <<K_result, result>>,
                      <<K_session_id, IF extras = "all" THEN JStr(T_uuid)
                                      ELSE IF extras = "odd" THEN JNum(5) ELSE JUndef>> >>,
                   LAMBDA m : m[2].t /= "undefined"))

GoodDoc(kind) ==
    CASE kind = "generateTasksFromPrd" -> T_prdDoc
      [] kind = "expandTask" -> T_subtaskDoc
      [] kind = "addTask" -> T_taskDoc
      [] kind = "analyzeComplexity" -> T_complexityDoc
      [] OTHER -> T_prose

\* the outputs the child of an operation may write: no JSON at all, a tool
\* error, prose without a document, a document the schema rejects, and a
\* document the schema accepts inside a code fence
OpOutputs(kind) ==
    { T_garbage,
      Stringify(Envelope(JBool(TRUE), JStr(T_boom), "all")),
      Stringify(Envelope(JBool(FALSE), JStr(T_prose), "all")),
      Stringify(Envelope(JBool(FALSE), JStr(T_smallDoc), "all")),
      Stringify(Envelope(JBool(FALSE),
                         JStr(FENCE \o JSONTAG \o <<NL>> \o GoodDoc(kind) \o <<NL>> \o FENCE),
                         "all")) \o <<NL>> }

FailedSpawn == [spawnOk |-> FALSE, script |-> <<>>, errScript |-> <<>>]

\* what the child of an operation or of the version probe may do
OpEnvs(kind) ==
    {FailedSpawn} \cup
    [spawnOk : {TRUE}, script : { <<t>> : t \in OpOutputs(kind) }, errScript : { <<T_stderr>> }]

ProbeEnvs ==
    {FailedSpawn} \cup [spawnOk : {TRUE}, script : { <<T_version>> }, errScript : { <<T_stderr>> }]

\* what the child of a direct executeCommand call may do
ExecEnvs ==
    {FailedSpawn} \cup
    [spawnOk : {TRUE},
     script : Chunkings(T_version) \cup Chunkings(<<>>),
     errScript : Chunkings(T_stderr) \cup Chunkings(<<>>)]

ExecTimeouts == {0 - 1, 0, 50}
ExecInputs == {<<>>, T_input}

----------------------------------------------------------------------------
(* Actions *)

\* a faulty operation, which passes the user prompt as an argument too
OpArgsWithUserPrompt(kind) ==
    <<"--print", "--output-format", "json", "systemPrompt", "userPrompt">>

OpArgs(kind) == <<"--print", "--output-format", "json", "systemPrompt">>

K_research == <<"r", "e", "s", "e", "a", "r", "c", "h">>
K_useResearch == <<"u", "s", "e", "R", "e", "s", "e", "a", "r", "c", "h">>
K_timeout == <<"t", "i", "m", "e", "o", "u", "t">>
K_numTasks == <<"n", "u", "m", "T", "a", "s", "k", "s">>
K_nextId == <<"n", "e", "x", "t", "I", "d">>

\* const { key = def } = params
Param(params, key, def) ==
    IF Get(params, key).t = "undefined" THEN def ELSE Get(params, key)

\* the parameter of an operation that carries the research flag
ResearchKey(kind) == IF kind = "generateTasksFromPrd" THEN K_research ELSE K_useResearch

\* the object an operation hands to its prompt generator, or builds its
\* prompts from: of its members, the ones that come from the count, the
\* first identifier and the research flag (the documents and the texts of
\* the caller are passed on as they are, and are left out)
PromptInput(kind, params) ==
    CASE kind = "generateTasksFromPrd" ->
            JObj(<< <<K_numTasks, Param(params, K_numTasks, JNum(10))>>,
                    <<K_nextId, Param(params, K_nextId, JNum(1))>>,
                    <<K_research, Param(params, K_research, JBool(FALSE))>> >>)
      [] kind = "expandTask" ->
            JObj(<< <<K_useResearch, Param(params, K_useResearch, JBool(FALSE))>> >>)
      [] OTHER -> JObj(<<>>)

\* the executable the provider spawns, and the one the validator probes
\* when CLAUDE_CLI_PATH is cliPath ("": not set, or empty)
ProviderCommand == "claude"
ValidatorCommand(cliPath) == IF cliPath /= "" THEN cliPath ELSE "claude"

\* the process an operation, or a version probe, asks executeCommand for
Invocation(impl, kind, params, cliPath) ==
    IF kind \in Operations
    THEN [command |-> ProviderCommand,
          args |-> OpArgs(kind),
          input |-> IF impl = "inline" THEN <<"prdContent">> ELSE <<"userPrompt">>,
          timeout |-> Param(params, K_timeout, JNum(DefaultTimeout)).v,
          promptInput |-> PromptInput(kind, params)]
    ELSE [command |-> IF impl = "validator" THEN ValidatorCommand(cliPath)
                      ELSE ProviderCommand,
          args |-> <<"--version">>,
          input |-> <<>>,
          timeout |-> ProbeTimeout,
          promptInput |-> JUndef]

\* an operation past checkAvailability: it builds its prompts and calls
\* executeCommand, whose promise it awaits
RunOperation(c, cl) ==
    \E env \in OpEnvs(cl.kind) :
        /\ call' = [call EXCEPT ![c] =
                        [cl EXCEPT !.pc = "executing", !.spawns = @ + 1,
                                   !.stages = Append(@, [name |-> "exec", ok |-> TRUE])]]
        /\ proc' = [proc EXCEPT ![c] =
                        Spawned("provider", "op",
                                Invocation("shared", cl.kind, JObj(<<>>), "").args,
                                Invocation("shared", cl.kind, JObj(<<>>), "").input,
                                cl.timeout, env)]

Finish(cl, r) == [cl EXCEPT !.pc = IF r.ok THEN "returned" ELSE "thrown", !.result = r]

MarkStage(cl, ok) ==
    [cl EXCEPT !.stages = [@ EXCEPT ![Len(@)] = [name |-> @.name, ok |-> ok]]]

\* the call after the pipeline gave done
Piped(cl, done) == Finish([cl EXCEPT !.stages = @ \o done.stages], done.result)

\* caller c has no call in flight, and the child of its last call is gone
Idle(c) ==
    /\ call[c].pc \in {"idle", "returned", "thrown"}
    /\ proc[c].phase \in {"none", "closed"}

\* a call of an operation or of checkAvailability: it runs up to its first
\* await that suspends
StartCall(c, kind) ==
    /\ Idle(c)
    /\ LET cl == [NoCall EXCEPT !.kind = kind, !.timeout = DefaultTimeout,
                                !.stages = <<[name |-> "probe",
                                              ok |-> isAvailable /= "false"]>>]
       IN  IF isAvailable /= "null"
           THEN \* checkAvailability returns the cached flag
                /\ UNCHANGED isAvailable
                /\ IF kind = "checkAvailability"
                   THEN /\ call' = [call EXCEPT ![c] =
                                       Finish(cl, Ok(JBool(isAvailable = "true")))]
                        /\ proc' = [proc EXCEPT ![c] = NoProc]
                        /\ hist' = [hist EXCEPT !.returns = @ \cup {isAvailable}]
                   ELSE RunOperation(c, cl) /\ UNCHANGED hist
           ELSE \E env \in ProbeEnvs :
                /\ call' = [call EXCEPT ![c] =
                                [cl EXCEPT !.pc = "probing", !.probes = @ + 1]]
                /\ proc' = [proc EXCEPT ![c] =
                                Spawned("provider", "probe", <<"--version">>, <<>>,
                                        ProbeTimeout, env)]
                /\ hist' = [hist EXCEPT !.probes = @ + 1]
                /\ UNCHANGED isAvailable
    /\ UNCHANGED pureVars

\* a direct call of executeCommand, of the provider or of the validator
StartExec(c, impl, timeout, input) ==
    /\ Idle(c)
    /\ \E env \in ExecEnvs :
        /\ call' = [call EXCEPT ![c] =
                        [NoCall EXCEPT !.kind = "executeCommand", !.pc = "executing",
                                  !.timeout = timeout, !.spawns = 1,
                                  !.stages = <<[name |-> "exec", ok |-> TRUE]>>]]
        /\ proc' = [proc EXCEPT ![c] =
                        Spawned(impl, "direct", <<"--version">>, input, timeout, env)]
    /\ UNCHANGED <<isAvailable, hist, pureVars>>

\* a faulty operation, which runs its command a second time when it failed
ResumeRetry(c, p) ==
    IF call[c].pc = "probing"
    THEN \* checkAvailability
         IF p.outcome.ok
         THEN /\ isAvailable' = "true"
              /\ IF call[c].kind = "checkAvailability"
                 THEN /\ call' = [call EXCEPT ![c] = Finish(call[c], Ok(JBool(TRUE)))]
                      /\ proc' = [proc EXCEPT ![c] = p]
                      /\ hist' = [hist EXCEPT !.writes = @ + 1,
                                              !.returns = @ \cup {"true"}]
                 ELSE /\ RunOperation(c, call[c])
                      /\ hist' = [hist EXCEPT !.writes = @ + 1]
         ELSE /\ isAvailable' = "false"
              /\ call' = [call EXCEPT ![c] =
                             Finish(MarkStage(call[c], FALSE),
                                    Throw(<<M_NotAvailable>> \o p.outcome.err))]
              /\ proc' = [proc EXCEPT ![c] = p]
              /\ hist' = [hist EXCEPT !.writes = @ + 1,
                                      !.returns = @ \cup
                                          (IF call[c].kind = "checkAvailability"
                                           THEN {"threw"} ELSE {})]
    ELSE IF call[c].kind \in Operations /\ ~p.outcome.ok /\ call[c].spawns < 2
    THEN /\ UNCHANGED <<isAvailable, hist>>
         /\ RunOperation(c, call[c])
    ELSE /\ UNCHANGED <<isAvailable, hist>>
         /\ proc' = [proc EXCEPT ![c] = p]
         /\ IF call[c].kind = "executeCommand" \/ ~p.outcome.ok
            THEN call' = [call EXCEPT ![c] =
                             Finish(MarkStage(call[c], p.outcome.ok), p.outcome)]
            ELSE call' = [call EXCEPT ![c] =
                             Piped(call[c], Pipeline(call[c].kind, p.outcome.val.v))]

\* the promise of caller c's executeCommand settled with outcome p.outcome:
\* the async function that awaits it runs on to its next await, its return
\* or its throw.  p is the closure after the handler.
Resume(c, p) ==
    IF call[c].pc = "probing"
    THEN \* checkAvailability
         IF p.outcome.ok
         THEN /\ isAvailable' = "true"
              /\ IF call[c].kind = "checkAvailability"
                 THEN /\ call' = [call EXCEPT ![c] = Finish(call[c], Ok(JBool(TRUE)))]
                      /\ proc' = [proc EXCEPT ![c] = p]
                      /\ hist' = [hist EXCEPT !.writes = @ + 1,
                                              !.returns = @ \cup {"true"}]
                 ELSE /\ RunOperation(c, call[c])
                      /\ hist' = [hist EXCEPT !.writes = @ + 1]
         ELSE /\ isAvailable' = "false"
              /\ call' = [call EXCEPT ![c] =
                             Finish(MarkStage(call[c], FALSE),
                                    Throw(<<M_NotAvailable>> \o p.outcome.err))]
              /\ proc' = [proc EXCEPT ![c] = p]
              /\ hist' = [hist EXCEPT !.writes = @ + 1,
                                      !.returns = @ \cup
                                          (IF call[c].kind = "checkAvailability"
                                           THEN {"threw"} ELSE {})]
    ELSE /\ UNCHANGED <<isAvailable, hist>>
         /\ proc' = [proc EXCEPT ![c] = p]
         /\ IF call[c].kind = "executeCommand" \/ ~p.outcome.ok
            THEN call' = [call EXCEPT ![c] =
                             Finish(MarkStage(call[c], p.outcome.ok), p.outcome)]
            ELSE call' = [call EXCEPT ![c] =
                             Piped(call[c], Pipeline(call[c].kind, p.outcome.val.v))]

\* a handler of caller c's executeCommand ran and left the closure p
Handled(c, p) ==
    /\ IF proc[c].promise = "pending" /\ p.promise /= "pending"
       THEN Resume(c, p)
       ELSE /\ proc' = [proc EXCEPT ![c] = p]
            /\ UNCHANGED <<call, isAvailable, hist>>
    /\ UNCHANGED pureVars

\* the timer of caller c's executeCommand expires
TimerFire(c) ==
    /\ proc[c].timer = "armed"
    /\ ~proc[c].errorPending
    /\ Handled(c, OnTimeout(proc[c]))

\* the 'close' event of caller c's child: the child has exited (or was never
\* started) and its streams have ended
CloseEvent(c) ==
    /\ \/ proc[c].phase = "exited"
       \/ proc[c].phase = "failed" /\ ~proc[c].errorPending
    /\ Handled(c, OnClose(proc[c], IF proc[c].phase = "failed" THEN JNum(0 - 2)
                                   ELSE proc[c].code))

\* the 'error' event of caller c's child
ErrorEvent(c) ==
    /\ proc[c].errorPending
    /\ Handled(c, OnError(proc[c]))

\* the child writes to its standard output: stdout += data
StdoutData(c) ==
    /\ proc[c].phase \in {"running", "exited"}
    /\ proc[c].script /= <<>>
    /\ proc' = [proc EXCEPT ![c] = [@ EXCEPT !.stdout = @ \o Head(proc[c].script),
                                             !.script = Tail(@)]]
    /\ UNCHANGED <<isAvailable, call, hist, pureVars>>

\* the child writes to its standard error: stderr += data
StderrData(c) ==
    /\ proc[c].phase \in {"running", "exited"}
    /\ proc[c].errScript /= <<>>
    /\ proc' = [proc EXCEPT ![c] = [@ EXCEPT !.stderr = @ \o Head(proc[c].errScript),
                                             !.errScript = Tail(@)]]
    /\ UNCHANGED <<isAvailable, call, hist, pureVars>>

\* the child exits: by itself with a status, or killed by the signal
ChildExit(c, code) ==
    /\ proc[c].phase = "running"
    /\ code.t = "null" => proc[c].signalled
    /\ proc' = [proc EXCEPT ![c] = [@ EXCEPT !.phase = "exited", !.code = code]]
    /\ UNCHANGED <<isAvailable, call, hist, pureVars>>

ExitCodes == {JNum(0), JNum(1), JNull}

----------------------------------------------------------------------------
(* Specifications *)

NoHist == [probes |-> 0, writes |-> 0, returns |-> {}]

Init ==
    /\ isAvailable = "null"
    /\ call = [c \in Callers |-> NoCall]
    /\ proc = [c \in Callers |-> NoProc]
    /\ hist = NoHist
    /\ parsePc = "off"
    /\ parseEnv = JUndef
    /\ parseRaw = <<>>
    /\ parseRes = Ok(JUndef)
    /\ tried = <<>>

Events(c) ==
    \/ TimerFire(c)
    \/ CloseEvent(c)
    \/ ErrorEvent(c)
    \/ StdoutData(c)
    \/ StderrData(c)
    \/ \E code \in ExitCodes : ChildExit(c, code)

\* one caller: operation calls and checkAvailability calls, one after the
\* other, on the provider
Next ==
    \/ \E kind \in Operations \cup {"checkAvailability"} : StartCall("c1", kind)
    \/ Events("c1")

Spec == Init /\ [][Next]_vars

\* the kinds of call the concurrent callers make
ConcKinds == {"checkAvailability"}

\* callers whose calls overlap on the shared provider
NextConc ==
    \E c \in Callers :
        \/ \E kind \in ConcKinds : StartCall(c, kind)
        \/ Events(c)

SpecConc == Init /\ [][NextConc]_vars

\* direct calls of executeCommand, one after the other
NextExec ==
    \/ \E impl \in {"provider", "validator"}, timeout \in ExecTimeouts, input \in ExecInputs :
            StartExec("c1", impl, timeout, input)
    \/ Events("c1")

SpecExec == Init /\ [][NextExec]_vars

\* the event loop comes to the timer phase of caller c's armed timer; the
\* 'error' event of a failed spawn, emitted on the next tick, is delivered
\* before any timer is looked at
TimerDue(c) ==
    /\ proc[c].timer = "armed"
    /\ ErrorEvent(c) \/ TimerFire(c)

\* the same calls with timers that expire.  Nothing is assumed of the child:
\* it need not write, exit or close its streams.
SpecExecLive == SpecExec /\ WF_vars(TimerDue("c1"))

----------------------------------------------------------------------------
(* parseCliResponse on its own: the outputs the tool may print *)

T_tricky == <<SP, "a", QUOTE, "b", BSLASH, "c", NL, SP>>

\* what the is_error member of an envelope may hold (JUndef: no such member)
EnvIsErrors == {JUndef, JBool(TRUE), JBool(FALSE), JNull, JNum(1), JNum(0), JStr(<<"n", "o">>)}

\* what the result member of an envelope may hold (JUndef: no such member)
EnvResults ==
    {JUndef, JNull, JNum(0), JNum(7), JStr(<<>>), JStr(T_boom), JStr(T_tricky),
     JStr(T_smallDoc), JArr(<<JNum(1), JNum(2)>>)}

EnvExtras == {"none", "all", "odd"}

\* outputs that are no envelope
RawOutputs ==
    {<<>>, T_garbage, <<"n", "u", "l", "l">>, <<"5">>, <<"[", "]">>,
     <<"{", QUOTE, "r", "e", "s", "u", "l", "t", QUOTE, ":">>}

\* the text of n characters that is no JSON
Filler(n) == [i \in 1..n |-> "x"]

\* outputs that are no JSON and whose length is about the bound of the raw
\* text kept in the error, or well above it
LongOutputs ==
    {Filler(RawPreview - 1), Filler(RawPreview), Filler(RawPreview + 1),
     <<"{", QUOTE>> \o Filler(RawPreview + 100)}

\* the inputs of parseCliResponse: an envelope and how it is printed, or a
\* raw text
ParseInputs ==
    [form : {"envelope"}, isError : EnvIsErrors, result : EnvResults,
     extras : EnvExtras, newline : BOOLEAN, raw : {<<>>}]
    \cup [form : {"raw"}, isError : {JUndef}, result : {JUndef},
          extras : {"none"}, newline : {FALSE}, raw : RawOutputs \cup LongOutputs]

\* the text the tool printed for the input e
Printed(e) ==
    IF e.form = "raw" THEN e.raw
    ELSE Stringify(Envelope(e.isError, e.result, e.extras))
         \o (IF e.newline THEN <<NL>> ELSE <<>>)

InitParse ==
    /\ isAvailable = "null"
    /\ call = [c \in Callers |-> NoCall]
    /\ proc = [c \in Callers |-> NoProc]
    /\ hist = NoHist
    /\ parsePc = "ready"
    /\ parseEnv \in ParseInputs
    /\ parseRaw = Printed(parseEnv)
    /\ parseRes = Ok(JUndef)
    /\ tried = <<>>

\* provider.parseCliResponse(parseRaw) is called and returns or throws
ParseCli ==
    /\ parsePc = "ready"
    /\ parseRes' = parseCliResponse(parseRaw)
    /\ parsePc' = "done"
    /\ UNCHANGED <<isAvailable, call, proc, hist, parseEnv, parseRaw, tried>>

NextParse == ParseCli

SpecParse == InitParse /\ [][NextParse]_vars

----------------------------------------------------------------------------
(* extractJsonFromContent on its own: the texts the model may answer with *)

K_a == <<"a">>
K_b == <<"b">>

\* documents that are objects
ObjectDocs ==
    {JObj(<< <<K_a, JNum(1)>> >>),
     JObj(<< <<K_a, JObj(<< <<K_b, JNum(1)>> >>)>> >>),
     JObj(<< <<K_a, JStr(<<"}", SP, "{">>)>>, <<K_b, JArr(<<JNum(2)>>)>> >>)}

\* documents that are no objects
OtherDocs ==
    {JArr(<<JNum(1), JNum(2)>>), JArr(<< JObj(<< <<K_a, JNum(1)>> >>) >>),
     JNum(5), JStr(<<"h", "i">>)}

T_hereIs == <<"H", "e", "r", "e", SP, "i", "s", SP, "t", "h", "e", SP, "r", "e", "s", "u", "l", "t", ":", SP>>
T_done == <<SP, "-", SP, "d", "o", "n", "e">>
T_a1 == <<"{", QUOTE, "a", QUOTE, ":", "1", "}">>
T_b2 == <<"{", QUOTE, "b", QUOTE, ":", "2", "}">>

\* texts of no particular form
ExtractTexts ==
    {<<>>, T_prose, <<"}", "{">>, <<"{">>, <<"7", "{">>, <<"{", "a", "}">>,
     T_a1 \o <<SP, "o", "r", SP>> \o T_b2,
     <<"[", "1", "]", SP, "o", "k">>,
     FENCE \o <<"J", "S", "O", "N", NL, "[", "1", "]", NL>> \o FENCE,
     FENCE \o <<NL, "o", "o", "p", "s", NL>> \o FENCE \o <<SP>> \o T_a1,
     <<"S", "u", "r", "e", ":", NL>> \o FENCE \o JSONTAG \o <<SP, NL>> \o T_a1
         \o <<NL>> \o FENCE \o <<NL, "B", "y", "e">>}

Blanks == {<<>>, <<SP>>, <<NL>>}

\* the inputs of extractJsonFromContent: a document printed bare, printed
\* in a fenced code block or printed within prose, or a text
ExtractInputs ==
    [form : {"bare"}, doc : ObjectDocs \cup OtherDocs, tag : {"none"},
     pre : Blanks, post : Blanks, raw : {<<>>}]
    \cup [form : {"fenced"}, doc : ObjectDocs \cup OtherDocs, tag : {"json", "none"},
          pre : {<<>>}, post : {<<>>, <<NL>>}, raw : {<<>>}]
    \cup [form : {"prose"}, doc : ObjectDocs, tag : {"none"},
          pre : {T_hereIs}, post : {<<>>, T_done}, raw : {<<>>}]
    \cup [form : {"prose"}, doc : ObjectDocs, tag : {"none"},
          pre : {<<>>}, post : {T_done}, raw : {<<>>}]
    \cup [form : {"text"}, doc : {JUndef}, tag : {"none"},
          pre : {<<>>}, post : {<<>>}, raw : ExtractTexts]

\* the text of the input e
Content(e) ==
    CASE e.form = "text" -> e.raw
      [] e.form = "fenced" ->
            FENCE \o (IF e.tag = "json" THEN JSONTAG ELSE <<>>) \o <<NL>>
            \o Stringify(e.doc) \o <<NL>> \o FENCE \o e.post
      [] OTHER -> e.pre \o Stringify(e.doc) \o e.post

InitExtract ==
    /\ isAvailable = "null"
    /\ call = [c \in Callers |-> NoCall]
    /\ proc = [c \in Callers |-> NoProc]
    /\ hist = NoHist
    /\ parsePc = "ready"
    /\ parseEnv \in ExtractInputs
    /\ parseRaw = Content(parseEnv)
    /\ parseRes = Ok(JUndef)
    /\ tried = <<>>

\* provider.extractJsonFromContent(parseRaw) is called and returns or throws
ExtractJson ==
    /\ parsePc = "ready"
    /\ parseRes' = extractJsonFromContent(JStr(parseRaw))
    /\ tried' = StrategiesTried(parseRaw)
    /\ parsePc' = "done"
    /\ UNCHANGED <<isAvailable, call, proc, hist, parseEnv, parseRaw>>

NextExtract == ExtractJson

SpecExtract == InitExtract /\ [][NextExtract]_vars

----------------------------------------------------------------------------
(* The operations on their own: the answers the model may give *)

K_notes == <<"n", "o", "t", "e", "s">>
W_done == <<"d", "o", "n", "e">>
T_title == <<"T", "i", "t", "l", "e">>
T_describe == <<"S", "e", "t", SP, "i", "t", SP, "u", "p", ".">>
T_detail == <<"I", "n", "s", "t", "a", "l", "l", SP, "a", "n", "d", SP,
              "c", "o", "n", "f", "i", "g", "u", "r", "e", ".">>

\* the members of ms that have a value
Members(ms) == SelectSeq(ms, LAMBDA m : m[2].t /= "undefined")

\* the optional members of a task that an answer may leave out
OmittedSets ==
    {{}, {K_dependencies, K_status, K_priority}, {K_details, K_testStrategy},
     {K_details, K_testStrategy, K_priority, K_dependencies, K_status}}

\* a task without the members of omit, with a member the schema does not
\* name when extra
TaskAnswer(id, omit, extra) ==
    JObj(Members(<< <<K_id, JNum(id)>>,
                    <<K_title, JStr(T_title)>>,
                    <<K_notes, IF extra THEN JStr(T_boom) ELSE JUndef>>,
                    <<K_description, JStr(T_describe)>>,
                    <<K_details, IF K_details \in omit THEN JUndef ELSE JStr(T_detail)>>,
                    <<K_testStrategy,
                      IF K_testStrategy \in omit THEN JUndef ELSE JStr(<<>>)>>,
                    <<K_priority, IF K_priority \in omit THEN JUndef ELSE JStr(W_low)>>,
                    <<K_dependencies,
                      IF K_dependencies \in omit THEN JUndef ELSE JArr(<<JNum(1)>>)>>,
                    <<K_status, IF K_status \in omit THEN JUndef ELSE JStr(W_done)>> >>))

\* a task set of k tasks whose identifiers start at first
PrdAnswer(k, first, omit, extra) ==
    JObj(<< <<K_tasks, JArr([i \in 1..k |-> TaskAnswer(first + i - 1, omit, extra)])>>,
            <<K_metadata,
              JObj(<< <<K_projectName, JStr(T_title)>>,
                      <<K_totalTasks, JNum(k)>>,
                      <<K_sourceFile, JStr(T_title)>>,
                      <<K_generatedAt, JStr(T_title)>> >>)>> >>)

PrdAnswers ==
    {PrdAnswer(0, 1, {}, FALSE)} \cup
    {PrdAnswer(k, first, omit, extra) :
        k \in 1..2, first \in {1, 3}, omit \in OmittedSets, extra \in BOOLEAN}

\* what the complexityScore member of an entry may hold (JUndef: no such
\* member)
Scores ==
    {JNum(0), JNum(1), JNum(5), JNum(10), JNum(11), JNum(0 - 3),
     JFrac(5, <<"5">>, FALSE), JFrac(0, <<"5">>, FALSE), JFrac(10, <<"5">>, FALSE),
     JFrac(9, <<"9", "9">>, FALSE), JStr(<<"5">>), JNull, JUndef}

ComplexityEntry(id, score) ==
    JObj(Members(<< <<K_taskId, JNum(id)>>,
                    <<K_taskTitle, JStr(T_title)>>,
                    <<K_complexityScore, score>>,
                    <<K_recommendedSubtasks, JNum(3)>>,
                    <<K_expansionPrompt, JStr(T_describe)>>,
                    <<K_reasoning, JStr(T_detail)>> >>))

\* an analysis of one entry, or of two entries the first of which is fine
ComplexityAnswers ==
    {JArr(<<ComplexityEntry(1, score)>>) : score \in Scores}
    \cup {JArr(<<ComplexityEntry(1, JNum(5)), ComplexityEntry(2, score)>>) : score \in Scores}

\* an analysis the model wrote as text: after an introduction, with a
\* closing remark as well, alone before a remark, and in a fenced code block
ComplexityTexts ==
    UNION { { JStr(T_hereIs \o Stringify(xs)),
              JStr(T_hereIs \o Stringify(xs) \o T_done),
              JStr(Stringify(xs) \o T_done),
              JStr(T_hereIs \o <<NL>> \o FENCE \o JSONTAG \o <<NL>>
                   \o Stringify(xs) \o <<NL>> \o FENCE) } :
            xs \in { JArr(<<ComplexityEntry(1, JNum(5))>>),
                     JArr(<<ComplexityEntry(1, JNum(5)), ComplexityEntry(2, JNum(7))>>) } }

\* the titles a subtask may have, of 0, 3, 4, 5 and 6 characters
Titles == {<<>>, <<"a", "b", "c">>, <<"a", "b", "c", "d">>, T_title, T_title \o <<"s">>}

\* a subtask that is fine but for its title and for the member flaw names
SubtaskAnswer(id, title, flaw) ==
    JObj(<< <<K_id, JNum(IF flaw = "id" THEN 0 ELSE id)>>,
            <<K_title, JStr(title)>>,
            <<K_description, JStr(IF flaw = "description" THEN T_title ELSE T_describe)>>,
            <<K_details, JStr(T_detail)>> >>)

\* subtask lists of one subtask, or of two the first of which is fine
ExpandAnswers ==
    {JObj(<< <<K_subtasks, JArr(<<SubtaskAnswer(1, title, flaw)>>)>> >>) :
        title \in Titles, flaw \in {"none", "id", "description"}}
    \cup {JObj(<< <<K_subtasks, JArr(<<SubtaskAnswer(1, T_title, "none"),
                                      SubtaskAnswer(2, title, flaw)>>)>> >>) :
            title \in Titles, flaw \in {"none", "description"}}

\* the answers of the model to an operation: documents, and plain texts
AnswersTo(kind) ==
    {JStr(T_prose)} \cup
    CASE kind = "generateTasksFromPrd" -> PrdAnswers
      [] kind = "expandTask" -> ExpandAnswers
      [] kind = "addTask" ->
            {TaskAnswer(2, omit, extra) : omit \in OmittedSets, extra \in BOOLEAN}
      [] kind = "analyzeComplexity" -> ComplexityAnswers \cup ComplexityTexts
      [] kind = "updateSubtask" -> {JStr(T_smallDoc), JStr(T_tricky), JStr(<<>>)}

\* the text of an answer: a document is printed as JSON
AnswerText(answer) == IF answer.t = "str" THEN answer.v ELSE Stringify(answer)

\* the inputs of an operation on its own: the implementation, the operation
\* and its numTasks and nextId options, and the answer of the model
OperateInputs ==
    UNION { [form : {"operate"}, impl : {impl}, kind : {kind},
             numTasks : IF kind = "generateTasksFromPrd" THEN {1, 2} ELSE {10},
             nextId : IF kind = "generateTasksFromPrd" THEN {1, 3} ELSE {1},
             answer : AnswersTo(kind)] :
            impl \in Implementations, kind \in Operations }

InitOperate ==
    /\ isAvailable = "null"
    /\ call = [c \in Callers |-> NoCall]
    /\ proc = [c \in Callers |-> NoProc]
    /\ hist = NoHist
    /\ parsePc = "ready"
    /\ parseEnv \in { e \in OperateInputs : e.kind \in OperationsOf(e.impl) }
    /\ parseRaw = Stringify(Envelope(JBool(FALSE), JStr(AnswerText(parseEnv.answer)), "all"))
    /\ parseRes = Ok(JUndef)
    /\ tried = <<>>

\* executeCommand resolved with parseRaw, and the operation returns or throws
Operate ==
    /\ parsePc = "ready"
    /\ parseRes' = OperationResult(parseEnv.impl, parseEnv.kind, parseRaw)
    /\ parsePc' = "done"
    /\ UNCHANGED <<isAvailable, call, proc, hist, parseEnv, parseRaw, tried>>

NextOperate == Operate

SpecOperate == InitOperate /\ [][NextOperate]_vars

----------------------------------------------------------------------------
(* The invocations on their own: the calls the callers may make *)

T_customPath == "/opt/claude/bin/claude"

\* the parameters of a call of an operation: the research flag, the
\* timeout and the count, each given or not
ParamsOf(kind) ==
    IF kind \notin Operations THEN {JObj(<<>>)}
    ELSE {JObj(Members(<< <<ResearchKey(kind), research>>,
                          <<K_timeout, timeout>>,
                          <<K_numTasks, numTasks>> >>)) :
            research \in {JUndef, JBool(TRUE), JBool(FALSE)},
            timeout \in {JUndef, JNum(1000), JNum(300000)},
            numTasks \in {JUndef, JNum(5)}}

\* the calls that end in a process: an operation or a version probe of one
\* of the providers, or the version probe of the validator, and the value
\* of CLAUDE_CLI_PATH in the environment
InvokeInputs ==
    UNION { [form : {"invoke"}, impl : {impl}, kind : {kind}, params : ParamsOf(kind),
             cliPath : {"", T_customPath}] :
            impl \in Implementations \cup {"validator"},
            kind \in Operations \cup {"checkAvailability"} }

InitInvoke ==
    /\ isAvailable = "null"
    /\ call = [c \in Callers |-> NoCall]
    /\ proc = [c \in Callers |-> NoProc]
    /\ hist = NoHist
    /\ parsePc = "ready"
    /\ parseEnv \in { e \in InvokeInputs :
                        IF e.impl = "validator" THEN e.kind = "checkAvailability"
                        ELSE e.kind \in OperationsOf(e.impl) \cup {"checkAvailability"} }
    /\ parseRaw = <<>>
    /\ parseRes = Ok(JUndef)
    /\ tried = <<>>

\* the call reaches executeCommand, which spawns the process
Invoke ==
    /\ parsePc = "ready"
    /\ parseRes' = Invocation(parseEnv.impl, parseEnv.kind, parseEnv.params, parseEnv.cliPath)
    /\ parsePc' = "done"
    /\ UNCHANGED <<isAvailable, call, proc, hist, parseEnv, parseRaw, tried>>

NextInvoke == Invoke

SpecInvoke == InitInvoke /\ [][NextInvoke]_vars

----------------------------------------------------------------------------
(* The validation script *)

W_true == <<"t", "r", "u", "e">>
W_false == <<"f", "a", "l", "s", "e">>

\* a === b of two values that are no objects: the same type and value
StrictEquals(a, b) == a.t = b.t /\ a = b

\* the names checkCLIProviderModule looks for in the provider module
expectedExports ==
    <<"claudeCliProvider", "generateTasksWithCli", "expandTaskWithCli", "addTaskWithCli",
      "analyzeComplexityWithCli", "updateSubtaskWithCli", "updateTaskWithCli",
      "updateTasksWithCli">>

\* the names the provider module exports: the module of one of the two
\* implementations, or a module that has every expected name
ProviderExports(module) ==
    CASE module = "inline" -> {"claudeCliProvider", "generateTasksWithCli"}
      [] module = "shared" ->
            {"claudeCliProvider", "generateTasksWithCli", "expandTaskWithCli",
             "addTaskWithCli", "analyzeComplexityWithCli", "updateSubtaskWithCli"}
      [] module = "complete" -> {expectedExports[k] : k \in 1..Len(expectedExports)}
      [] OTHER -> {}

\* new CLIValidator(); effects lists what the checks did to the provider
NewValidator ==
    [errors |-> <<>>, warnings |-> <<>>, testResults |-> <<>>, effects |-> <<>>]

PushError(v, e) == [v EXCEPT !.errors = Append(@, e)]
PushWarning(v, w) == [v EXCEPT !.warnings = Append(@, w)]
Effect(v, e) == [v EXCEPT !.effects = Append(@, e)]
Returns(v, result) == [v |-> v, result |-> result]

\* checkCLIAvailability: the version probe of the validator succeeded or not
checkCLIAvailability(v, env) ==
    IF env.cliOk THEN Returns(v, TRUE)
    ELSE Returns(PushError(v, <<"Claude CLI not available: ">>), FALSE)

checkEnvironmentConfig(v, env) ==
    Returns(IF StrictEquals(env.cliMode, JStr(W_true)) THEN v
            ELSE PushWarning(v, "CLAUDE_CLI_MODE not set to true"),
            TRUE)

\* the for loop over expectedExports, from the k-th name on
RECURSIVE CheckExports(_, _, _)
CheckExports(v, exports, k) ==
    IF k > Len(expectedExports) THEN v
    ELSE CheckExports(IF expectedExports[k] \in exports THEN v
                      ELSE PushError(v, <<"Missing export: ", expectedExports[k]>>),
                      exports, k + 1)

\* a faulty check, which looks only at the errors it recorded itself
checkCLIProviderModuleOwnErrors(v, env) ==
    IF env.module = "missing"
    THEN Returns(PushError(v, <<"CLI provider module missing">>), FALSE)
    ELSE IF env.module = "broken"
    THEN Returns(PushError(Effect(v, "import"), <<"CLI provider import failed: ">>), FALSE)
    ELSE Returns(CheckExports(Effect(v, "import"), ProviderExports(env.module), 1),
                 CheckExports(v, ProviderExports(env.module), 1).errors = v.errors)

checkCLIProviderModule(v, env) ==
    IF env.module = "missing"
    THEN Returns(PushError(v, <<"CLI provider module missing">>), FALSE)
    ELSE IF env.module = "broken"
    THEN Returns(PushError(Effect(v, "import"), <<"CLI provider import failed: ">>), FALSE)
    ELSE Returns(CheckExports(Effect(v, "import"), ProviderExports(env.module), 1),
                 CheckExports(v, ProviderExports(env.module), 1).errors = <<>>)

\* env.config says what config-manager.js has: modeFn and pathFn, whether
\* it exports the two functions, and modeOn, what isClaudeCliModeEnabled()
\* returns
checkConfigManager(v, env) ==
    IF env.config.broken
    THEN Returns(PushError(v, <<"Config manager check failed: ">>), FALSE)
    ELSE LET v1 == IF ~env.config.modeFn
                   THEN PushError(v, <<"Missing CLI mode function">>)
                   ELSE IF StrictEquals(env.cliMode, JStr(W_true)) /\ ~env.config.modeOn
                   THEN PushWarning(v, "CLI mode function inconsistency")
                   ELSE v
         IN  Returns(IF env.config.pathFn THEN v1
                     ELSE PushWarning(v1, "Missing getClaudeCliPath function"),
                     TRUE)

\* !process.env.CLAUDE_CLI_MODE === 'true': the negation is taken first,
\* and its boolean is compared with the string
SkipsProviderTests(cliMode) == StrictEquals(JBool(~Truthy(cliMode)), JStr(W_true))

\* testCLIProviderBasics: env.provider says what checkAvailability() of the
\* provider does, which is to return true, to return false or to throw
testCLIProviderBasics(v, env) ==
    IF SkipsProviderTests(env.cliMode) THEN Returns(v, TRUE)
    ELSE IF "claudeCliProvider" \notin ProviderExports(env.module)
    THEN Returns(PushError(Effect(v, "import"), <<"CLI provider test failed: ">>), FALSE)
    ELSE LET v1 == Effect(Effect(v, "import"), "checkAvailability")
         IN  CASE env.provider = "throws" ->
                    Returns(PushError(v1, <<"CLI provider test failed: ">>), FALSE)
               [] env.provider = "false" ->
                    Returns(PushError(v1, <<"CLI provider availability check failed">>),
                            FALSE)
               [] env.provider = "true" -> Returns(v1, TRUE)

\* the tests of runAllTests, in the order of its list
Tests ==
    <<"CLI Availability", "Environment Config", "CLI Provider Module",
      "Configuration Manager", "CLI Provider Basics">>

TestOf(name, v, env) ==
    CASE name = "CLI Availability" -> checkCLIAvailability(v, env)
      [] name = "Environment Config" -> checkEnvironmentConfig(v, env)
      [] name = "CLI Provider Module" -> checkCLIProviderModule(v, env)
      [] name = "Configuration Manager" -> checkConfigManager(v, env)
      [] name = "CLI Provider Basics" -> testCLIProviderBasics(v, env)

\* what the validator finds: whether its version probe succeeds, the value
\* of CLAUDE_CLI_MODE, the provider module and the configuration manager on
\* the disk, and what the provider's checkAvailability does
ConfigManagers ==
    {[broken |-> TRUE, modeFn |-> FALSE, modeOn |-> FALSE, pathFn |-> FALSE],
     [broken |-> FALSE, modeFn |-> FALSE, modeOn |-> FALSE, pathFn |-> TRUE],
     [broken |-> FALSE, modeFn |-> TRUE, modeOn |-> FALSE, pathFn |-> FALSE],
     [broken |-> FALSE, modeFn |-> TRUE, modeOn |-> TRUE, pathFn |-> FALSE],
     [broken |-> FALSE, modeFn |-> TRUE, modeOn |-> TRUE, pathFn |-> TRUE]}

ValidateInputs ==
    [form : {"validate"}, cliOk : BOOLEAN,
     cliMode : {JUndef, JStr(<<>>), JStr(W_true), JStr(W_false)},
     module : {"missing", "broken", "inline", "shared", "complete"},
     config : ConfigManagers,
     provider : {"true", "false", "throws"}]

\* the script was started: new CLIValidator(), and runAllTests() up to its
\* first test
InitValidate ==
    /\ isAvailable = "null"
    /\ call = [c \in Callers |-> NoCall]
    /\ proc = [c \in Callers |-> NoProc]
    /\ hist = NoHist
    /\ parsePc = "testing"
    /\ parseEnv \in ValidateInputs
    /\ parseRaw = <<>>
    /\ parseRes = [v |-> NewValidator, passed |-> 0, failed |-> 0,
                   success |-> FALSE, exit |-> 0 - 1]
    /\ tried = <<>>

\* one turn of the for loop of runAllTests: the next test runs, and its
\* result is recorded and counted.  No test throws: each catches its errors.
RunTest ==
    /\ parsePc = "testing"
    /\ LET name == Tests[Len(parseRes.v.testResults) + 1]
           r == TestOf(name, parseRes.v, parseEnv)
       IN  /\ parseRes' = [parseRes EXCEPT
                              !.v = [r.v EXCEPT !.testResults = Append(@, <<name, r.result>>)],
                              !.passed = IF r.result THEN @ + 1 ELSE @,
                              !.failed = IF r.result THEN @ ELSE @ + 1]
           /\ parsePc' = IF Len(parseRes.v.testResults) + 1 = Len(Tests)
                         THEN "summary" ELSE "testing"
    /\ UNCHANGED <<isAvailable, call, proc, hist, parseEnv, parseRaw, tried>>

\* a faulty summary, which looks at the count of failed tests only
SummaryCountsOnly ==
    /\ parsePc = "summary"
    /\ parseRes' = [parseRes EXCEPT !.success = parseRes.failed = 0]
    /\ parsePc' = "returned"
    /\ UNCHANGED <<isAvailable, call, proc, hist, parseEnv, parseRaw, tried>>

\* the summary of runAllTests and its return value
Summary ==
    /\ parsePc = "summary"
    /\ parseRes' = [parseRes EXCEPT
                       !.success = parseRes.failed = 0 /\ parseRes.v.errors = <<>>]
    /\ parsePc' = "returned"
    /\ UNCHANGED <<isAvailable, call, proc, hist, parseEnv, parseRaw, tried>>

\* the script entry point: process.exit(success ? 0 : 1)
Exit ==
    /\ parsePc = "returned"
    /\ parseRes' = [parseRes EXCEPT !.exit = IF parseRes.success THEN 0 ELSE 1]
    /\ parsePc' = "exited"
    /\ UNCHANGED <<isAvailable, call, proc, hist, parseEnv, parseRaw, tried>>

NextValidate == RunTest \/ Summary \/ Exit

SpecValidate == InitValidate /\ [][NextValidate]_vars

----------------------------------------------------------------------------
(* Properties of executeCommand *)

\* the kind of failure a message stands for: what a caller can tell from the
\* Error it catches
ErrorKind(m) ==
    CASE m = <<>> -> "none"
      [] m[1] \in {M_TimedOut("provider"), M_TimedOut("validator")} -> "TimeoutError"
      [] m[1] \in {M_Exited("provider"), M_Exited("validator")} -> "ProcessError"
      [] m[1] \in {M_SpawnFailed("provider"), M_SpawnFailed("validator")} -> "SpawnError"
      [] m[1] = M_NotAvailable -> "UnavailableError"
      [] m[1] \in {M_ParseFailed, M_NoResult} -> "EnvelopeError"
      [] m[1] = M_RequestFailed -> "ToolError"
      [] m[1] = M_ExtractFailed -> "ExtractionError"
      [] m[1] \in {M_ValidationFailed(k) : k \in Operations \ {"updateSubtask"}} -> "ValidationError"
      [] OTHER -> "Error"

Settled(c) == proc[c].promise \in {"resolved", "rejected"}

\* caller c starts a new call in this step
Starts(c) == call[c].pc \in {"idle", "returned", "thrown"} /\ call'[c].pc \notin {"idle", "returned", "thrown"}

\* the settled promise of executeCommand carries one of the four outcomes,
\* and success carries all of the output, the child being closed
OneOutcome(c) ==
    Settled(c) =>
        IF proc[c].outcome.ok
        THEN /\ proc[c].promise = "resolved"
             /\ proc[c].phase = "closed"
             /\ proc[c].code = JNum(0)
             /\ proc[c].outcome.val = JStr(proc[c].stdout)
        ELSE /\ proc[c].promise = "rejected"
             /\ proc[c].outcome.val = JUndef
             /\ ErrorKind(proc[c].outcome.err) \in {"TimeoutError", "ProcessError", "SpawnError"}

\* events after the promise settled leave its outcome, and what the caller
\* got, as they are
StaysSettled(c) ==
    (Settled(c) /\ ~Starts(c)) =>
        /\ proc'[c].promise = proc[c].promise
        /\ proc'[c].outcome = proc[c].outcome
        /\ call'[c] = call[c]

\* C1: a call of executeCommand settles at most once, with exactly one of
\* success, TimeoutError, ProcessError and SpawnError; events that arrive
\* after it settled leave the outcome unchanged, and success never carries
\* partial output.
C1_SettlesOnce ==
    /\ [](\A c \in Callers : OneOutcome(c))
    /\ [][\A c \in Callers : StaysSettled(c)]_vars

\* the timer fired and rejected the call, and the close event arrived later
C1_Witness ==
    /\ proc["c1"].timer = "fired"
    /\ proc["c1"].phase = "closed"
    /\ proc["c1"].code = JNum(0)
    /\ proc["c1"].promise = "rejected"
    /\ ErrorKind(call["c1"].result.err) = "TimeoutError"

\* the timer of caller c expires in this step
TimerExpires(c) == proc[c].timer = "armed" /\ proc'[c].timer = "fired"

\* C2: when the deadline is greater than zero and the child has not closed
\* by the time the timer expires, the executor sends SIGTERM to the child
\* and the call fails with TimeoutError.
C2_TimeoutKills ==
    [][\A c \in Callers :
          (TimerExpires(c) /\ proc[c].timeout > 0 /\ proc[c].phase /= "closed") =>
              /\ proc'[c].kills = proc[c].kills + 1
              /\ proc[c].phase = "running" => proc'[c].signalled
              /\ proc'[c].promise = "rejected"
              /\ ErrorKind(proc'[c].outcome.err) = "TimeoutError"
              /\ call'[c].pc = "thrown"
              /\ call'[c].result = proc'[c].outcome]_vars

\* the timer expired on a running child: it was signalled and the call failed
C2_Witness ==
    /\ proc["c1"].timer = "fired"
    /\ proc["c1"].timeout = 50
    /\ proc["c1"].kills = 1
    /\ proc["c1"].signalled
    /\ call["c1"].pc = "thrown"
    /\ ErrorKind(call["c1"].result.err) = "TimeoutError"

\* C3: whenever a call of executeCommand has settled, the child it started
\* is no longer running.
C3_NoLiveChild ==
    \A c \in Callers : Settled(c) => proc[c].phase /= "running"

----------------------------------------------------------------------------
(* Properties of the operations *)

Finished(c) == call[c].pc \in {"returned", "thrown"}

\* the operations whose result is a JSON document
JsonOperations == Operations \ {"updateSubtask"}

\* C4: an operation spawns its process only after the availability probe
\* found the tool available; when the tool is unavailable the call fails
\* with UnavailableError and spawns no operation process, on the call whose
\* probe failed and on every call after it.
C4_SpawnOnlyWhenAvailable ==
    \A c \in Callers :
        call[c].kind \in Operations =>
            /\ call[c].spawns > 0 => isAvailable = "true"
            /\ isAvailable = "false" =>
                   /\ call[c].spawns = 0
                   /\ call[c].pc = "thrown"
                   /\ ErrorKind(call[c].result.err) = "UnavailableError"

StageNames == <<"probe", "exec", "parse", "extract", "validate">>

\* the kinds of error a stage fails with
StageErrors(name) ==
    CASE name = "probe" -> {"UnavailableError"}
      [] name = "exec" -> {"SpawnError", "TimeoutError", "ProcessError"}
      [] name = "parse" -> {"EnvelopeError", "ToolError"}
      [] name = "extract" -> {"ExtractionError"}
      [] name = "validate" -> {"ValidationError"}

\* the stages of caller c's call ran in order, each after the one before it
\* succeeded, and a stage that failed ended the call with its error
StagesInOrder(c) ==
    LET st == call[c].stages
    IN  /\ Len(st) <= Len(StageNames)
        /\ \A k \in 1..Len(st) : st[k].name = StageNames[k]
        /\ \A k \in 1..(Len(st) - 1) : st[k].ok
        /\ (st /= <<>> /\ ~st[Len(st)].ok) =>
               /\ call[c].pc = "thrown"
               /\ ErrorKind(call[c].result.err) \in StageErrors(st[Len(st)].name)
        /\ call[c].pc = "returned" =>
               /\ Len(st) = Len(StageNames)
               /\ st[Len(st)].ok

\* C5: a JSON operation runs availability probe, process execution, envelope
\* parsing, content extraction and schema validation in that order; a stage
\* starts only after the one before it succeeded, and the first stage that
\* fails ends the call with that stage's error.
C5_StagesInOrder ==
    \A c \in Callers : call[c].kind \in JsonOperations => StagesInOrder(c)

\* the document a successful call of the kind returned, as its schema reads it
Document(kind, returned) ==
    IF kind = "expandTask"
    THEN JObj(<< <<K_subtasks, Get(returned, K_mainResult)>> >>)
    ELSE Get(returned, K_mainResult)

\* the returned value is the success wrapper of a document that the schema
\* of the operation accepts and leaves as it is
ReturnsValidated(kind, returned) ==
    /\ returned = Wrapped(Get(returned, K_mainResult))
    /\ ZodParse(SchemaOf(kind), Document(kind, returned), <<>>).ok
    /\ ZodParse(SchemaOf(kind), Document(kind, returned), <<>>).val = Document(kind, returned)

\* C6: a call of a JSON operation that succeeds carries a document that
\* passed the schema of the operation; every other call fails with a single
\* error and returns no result.
C6_ValidatedOrError ==
    \A c \in Callers :
        (call[c].kind \in JsonOperations /\ Finished(c)) =>
            IF call[c].pc = "returned"
            THEN /\ call[c].result.ok
                 /\ call[c].result.err = <<>>
                 /\ ReturnsValidated(call[c].kind, call[c].result.val)
            ELSE /\ ~call[c].result.ok
                 /\ call[c].result.val = JUndef
                 /\ call[c].result.err /= <<>>

\* an operation ran its five stages and returned its document
C6_Witness ==
    /\ call["c1"].kind = "generateTasksFromPrd"
    /\ call["c1"].pc = "returned"
    /\ Len(call["c1"].stages) = 5
    /\ HasKey(Get(call["c1"].result.val, K_mainResult), K_tasks)

\* C7: of two calls of checkAvailability the underlying probe runs at most
\* once, and both calls return the same boolean.
C7_ProbeOnce ==
    /\ hist.probes <= 1
    /\ Cardinality(hist.returns) <= 1

\* C8: the availability flag is written at most once, however the calls
\* interleave.
C8_FlagWrittenOnce == hist.writes <= 1

----------------------------------------------------------------------------
(* Properties of parseCliResponse *)

\* parseCliResponse was given the printed envelope and has returned or thrown
ParsedEnvelope == parsePc = "done" /\ parseEnv.form = "envelope"

\* the message of the ToolError of an envelope whose result member is r
ToolErrorMessage(r) ==
    <<M_RequestFailed>> \o (IF Truthy(r) THEN ToStr(r) ELSE <<M_UnknownError>>)

\* C9: for an envelope whose is_error is true, parsing fails with ToolError,
\* a kind of error distinct from EnvelopeError, whose message is the result
\* text of the tool or a generic fallback.
C9_ToolError ==
    (ParsedEnvelope /\ parseEnv.isError = JBool(TRUE)) =>
        /\ ~parseRes.ok
        /\ ErrorKind(parseRes.err) = "ToolError"
        /\ parseRes.err = ToolErrorMessage(parseEnv.result)

\* C10: for an envelope whose is_error is false and whose result is a
\* non-empty string, parsing returns that text unchanged, whatever the other
\* members of the envelope hold.
C10_ResultUnchanged ==
    (/\ ParsedEnvelope
     /\ parseEnv.isError = JBool(FALSE)
     /\ parseEnv.result.t = "str"
     /\ parseEnv.result.v /= <<>>) =>
        parseRes = Ok(parseEnv.result)

\* an envelope with unusual members, printed with a newline after it, gave
\* back its result text with the blanks, quote and backslash in it
C10_Witness ==
    /\ ParsedEnvelope
    /\ parseEnv.isError = JBool(FALSE)
    /\ parseEnv.result = JStr(T_tricky)
    /\ parseEnv.extras = "odd"
    /\ parseEnv.newline
    /\ parseRes.ok
    /\ parseRes.val.v = T_tricky

\* the raw output was no JSON text (the kinds of text printed here that are)
Undecodable ==
    /\ parseEnv.form = "raw"
    /\ parseRaw \notin {<<"n", "u", "l", "l">>, <<"5">>, <<"[", "]">>}

\* the first n characters of s, all of s when it is shorter
Prefix(s, n) == [i \in 1..(IF Len(s) < n THEN Len(s) ELSE n) |-> s[i]]

\* C11: when the raw output cannot be decoded as JSON, parseCliResponse
\* fails with EnvelopeError, and the error carries the first 500 characters
\* of the raw text and no more of it.
C11_RawTextCut ==
    (parsePc = "done" /\ Undecodable) =>
        /\ ~parseRes.ok
        /\ ErrorKind(parseRes.err) = "EnvelopeError"
        /\ parseRes.err = <<M_ParseFailed, M_SyntaxError, M_RawOutput>>
                          \o Prefix(parseRaw, 500) \o <<M_Ellipsis>>
        /\ Len(parseRes.err) <= 3 + 500 + 1

\* an undecodable output longer than the bound was cut in the error
C11_Witness ==
    /\ parsePc = "done"
    /\ Undecodable
    /\ Len(parseRaw) > 500
    /\ ~parseRes.ok
    /\ Len(parseRes.err) = 504

----------------------------------------------------------------------------
(* Properties of extractJsonFromContent *)

Extracted == parsePc = "done" /\ parseEnv.form \in {"bare", "fenced", "prose", "text"}

\* what the three strategies give decides which were invoked and what the
\* call gave: s1, s2, s3 are their outcomes on the content
OrderedOutcome(s1, s2, s3) ==
    /\ tried = (IF s1.ok THEN <<1>> ELSE IF s2.ok THEN <<1, 2>> ELSE <<1, 2, 3>>)
    /\ IF s1.ok THEN parseRes = Ok(s1.val)
       ELSE IF s2.ok THEN parseRes = Ok(s2.val)
       ELSE IF s3.ok THEN parseRes = Ok(s3.val)
       ELSE ~parseRes.ok /\ ErrorKind(parseRes.err) = "ExtractionError"

\* C12: the strategies are tried in the order direct parse, code block,
\* first to last brace; one is tried only after the one before it failed,
\* the returned document is the output of the first that succeeds, and for a
\* bare JSON object only strategy 1 is invoked.
C12_StrategyOrder ==
    Extracted =>
        /\ OrderedOutcome(DirectParse(parseRaw), CodeBlockParse(parseRaw),
                          BraceParse(parseRaw))
        /\ (parseEnv.form = "bare" /\ parseEnv.doc.t = "obj") =>
               /\ tried = <<1>>
               /\ parseRes = Ok(parseEnv.doc)

\* a text that both fallback strategies can read, differently, gave what the
\* code block strategy reads
C12_Witness ==
    /\ Extracted
    /\ parseEnv.form = "fenced"
    /\ parseEnv.doc = JArr(<< JObj(<< <<K_a, JNum(1)>> >>) >>)
    /\ BraceParse(parseRaw).ok
    /\ tried = <<1, 2>>
    /\ parseRes = Ok(parseEnv.doc)

\* no "{" of s has a "}" after it
NoBracePair(s) == ~\E i, j \in 1..Len(s) : i < j /\ s[i] = "{" /\ s[j] = "}"

AllStrategiesFail ==
    /\ tried = <<1, 2, 3>>
    /\ ~parseRes.ok
    /\ ErrorKind(parseRes.err) = "ExtractionError"

C14_FencedBlock ==
    (Extracted /\ parseEnv.form = "fenced") =>
        /\ ~DirectParse(parseRaw).ok
        /\ tried = <<1, 2>>
        /\ parseRes = Ok(parseEnv.doc)

\* the block without a tag around {"a":1} gave the object
C14_Witness ==
    /\ Extracted
    /\ parseEnv.form = "fenced"
    /\ parseEnv.tag = "none"
    /\ parseRaw = FENCE \o <<NL>> \o T_a1 \o <<NL>> \o FENCE
    /\ parseRes = Ok(JObj(<< <<K_a, JNum(1)>> >>))

----------------------------------------------------------------------------
(* Properties of the handlers of executeCommand *)

RECURSIVE Joined(_)
\* the chunks one after the other
Joined(chunks) == IF chunks = <<>> THEN <<>> ELSE Head(chunks) \o Joined(Tail(chunks))

\* the 'close' event of caller c's child arrives in this step, the promise
\* being pending
ClosesPending(c) ==
    /\ proc[c].promise = "pending"
    /\ proc[c].phase /= "closed"
    /\ proc'[c].phase = "closed"

\* C16: when the child closes with exit status 0 and the call has not timed
\* out before, executeCommand resolves with the complete standard output:
\* every chunk received, in the order of arrival, and nothing of stderr.
C16_ResolvesWithStdout ==
    /\ [](\A c \in Callers :
            proc[c].phase /= "none" =>
                proc[c].stdout \o Joined(proc[c].script) \in {T_version, <<>>})
    /\ [][\A c \in Callers :
            (ClosesPending(c) /\ proc'[c].code = JNum(0)) =>
                /\ proc'[c].promise = "resolved"
                /\ proc'[c].outcome = Ok(JStr(proc[c].stdout))
                /\ call'[c].pc = "returned"
                /\ call'[c].result = Ok(JStr(proc[c].stdout))]_vars

\* the output arrived, the stderr text too, and the call gave the output
C16_Witness ==
    /\ call["c1"].kind = "executeCommand"
    /\ proc["c1"].phase = "closed"
    /\ proc["c1"].stdout = T_version
    /\ proc["c1"].stderr = T_stderr
    /\ proc["c1"].timer = "cleared"
    /\ call["c1"].pc = "returned"
    /\ call["c1"].result.val = JStr(T_version)

\* the message of the ProcessError for the exit code and the stderr text
ExitedMessage(impl, code, stderr) ==
    <<M_Exited(impl)>> \o ToStr(code)
    \o (IF stderr /= <<>> THEN <<M_Colon>> \o stderr ELSE <<>>)

\* C17: when the child closes with an exit status other than 0 and the call
\* has not settled, executeCommand fails with ProcessError, which carries
\* the exit code and the stderr text collected so far; only exit status 0
\* is success, whatever the envelope on stdout says.
C17_ProcessError ==
    /\ [](\A c \in Callers :
            /\ proc[c].phase /= "none" =>
                   proc[c].stderr \o Joined(proc[c].errScript) \in {T_stderr, <<>>}
            /\ proc[c].promise = "resolved" => proc[c].code = JNum(0))
    /\ [][\A c \in Callers :
            ClosesPending(c) =>
                IF proc'[c].code = JNum(0)
                THEN proc'[c].promise = "resolved"
                ELSE /\ proc'[c].promise = "rejected"
                     /\ ErrorKind(proc'[c].outcome.err) = "ProcessError"
                     /\ proc'[c].outcome.err =
                            ExitedMessage(proc[c].impl, proc'[c].code, proc[c].stderr)
                     /\ call'[c].pc = "thrown"
                     /\ proc[c].purpose /= "probe" =>
                            call'[c].result = proc'[c].outcome]_vars

\* the tool printed a good answer and text on stderr and exited with 1
C17_Witness ==
    /\ call["c1"].kind = "addTask"
    /\ proc["c1"].purpose = "op"
    /\ proc["c1"].phase = "closed"
    /\ proc["c1"].code = JNum(1)
    /\ proc["c1"].stdout =
           Stringify(Envelope(JBool(FALSE), JStr(T_smallDoc), "all"))
    /\ call["c1"].pc = "thrown"
    /\ call["c1"].result.err = <<M_Exited("provider"), "1", M_Colon>> \o T_stderr

\* C18: in every call of executeCommand standard input is closed exactly
\* once: a non-empty input is written in full and then the stream is ended,
\* an empty one is not written and the stream is ended at once.
C18_StdinClosedOnce ==
    \A c \in Callers :
        proc[c].phase /= "none" =>
            /\ proc[c].stdinEnds = 1
            /\ IF proc[c].input /= <<>>
               THEN /\ proc[c].stdinWrites = 1
                    /\ proc[c].stdin = <<[op |-> "write", data |-> proc[c].input],
                                         [op |-> "end", data |-> <<>>]>>
               ELSE /\ proc[c].stdinWrites = 0
                    /\ proc[c].stdin = <<[op |-> "end", data |-> <<>>]>>

\* a call without input went through to its end
C18_Witness ==
    /\ call["c1"].kind = "executeCommand"
    /\ proc["c1"].input = <<>>
    /\ proc["c1"].phase = "closed"
    /\ proc["c1"].stdin = <<[op |-> "end", data |-> <<>>]>>

\* C19: when the deadline is zero or negative no timer is armed: the call
\* never fails with TimeoutError and the executor never signals the child.
C19_NoTimer ==
    \A c \in Callers :
        (proc[c].phase /= "none" /\ proc[c].timeout <= 0) =>
            /\ proc[c].timer = "unset"
            /\ proc[c].kills = 0
            /\ ~proc[c].signalled
            /\ ErrorKind(proc[c].outcome.err) /= "TimeoutError"
            /\ ErrorKind(call[c].result.err) /= "TimeoutError"

\* a call with deadline zero ran until its child closed
C19_Witness ==
    /\ call["c1"].kind = "executeCommand"
    /\ proc["c1"].timeout = 0
    /\ proc["c1"].phase = "closed"
    /\ proc["c1"].timer = "unset"
    /\ call["c1"].pc = "returned"

----------------------------------------------------------------------------
(* Properties of an operation call as a whole *)

\* caller c's call spawns a process in this step
SpawnsProcess(c) ==
    \/ call'[c].spawns > call[c].spawns /\ ~Starts(c)
    \/ Starts(c) /\ call'[c].probes + call'[c].spawns > 0

\* the number of the stages of the name in the stages st
StageCount(st, name) == Cardinality({k \in 1..Len(st) : st[k].name = name})

\* C20: an operation call never retries: it spawns at most one version
\* probe and at most one operation process, writes the input at most once,
\* collects the output at most once, and has at most one process in flight.
C20_NoRetry ==
    /\ [](\A c \in Callers :
            call[c].kind \in Operations =>
                /\ call[c].probes <= 1
                /\ call[c].spawns <= 1
                /\ proc[c].stdinWrites <= 1
                /\ proc[c].stdinEnds <= 1
                /\ \A name \in {"probe", "exec", "parse", "extract", "validate"} :
                       StageCount(call[c].stages, name) <= 1)
    /\ [][\A c \in Callers :
            (call'[c].kind \in Operations /\ SpawnsProcess(c)) =>
                proc[c].phase \in {"none", "exited", "closed"}]_vars

\* an operation probed, ran its command, and failed when the command timed out
C20_Witness ==
    /\ call["c1"].kind = "generateTasksFromPrd"
    /\ call["c1"].probes = 1
    /\ call["c1"].spawns = 1
    /\ call["c1"].pc = "thrown"
    /\ ErrorKind(call["c1"].result.err) = "TimeoutError"
    /\ proc["c1"].purpose = "op"

----------------------------------------------------------------------------
(* The operations on their own *)

\* an operation was applied to the answer of the model
Operated == parsePc = "done" /\ parseEnv.form = "operate"

\* C21: every operation call that succeeds, of any of the five operations
\* and in both implementations of the bridge, returns the validated result
\* wrapped in an object whose success flag is true.
C21_SuccessWrapped ==
    (Operated /\ parseRes.ok) =>
        /\ parseRes.val = Wrapped(Get(parseRes.val, K_mainResult))
        /\ Get(parseRes.val, K_success) = JBool(TRUE)
        /\ parseEnv.kind \in JsonOperations =>
               ReturnsValidated(parseEnv.kind, parseRes.val)

\* C22: updateSubtask runs neither the JSON extraction nor a schema: when it
\* succeeds it returns the text of the result member of the envelope the
\* tool printed, character for character, and when it fails the error is
\* one of the probe, of the executor or of the envelope, never an
\* extraction or validation error.
C22_UpdateSubtaskText ==
    \A c \in Callers :
        (call[c].kind = "updateSubtask" /\ Finished(c)) =>
            /\ \A k \in 1..Len(call[c].stages) :
                   call[c].stages[k].name \in {"probe", "exec", "parse"}
            /\ call[c].pc = "returned" =>
                   /\ call[c].result.val = Wrapped(Get(call[c].result.val, K_mainResult))
                   /\ Get(call[c].result.val, K_mainResult).t = "str"
                   /\ proc[c].stdout \in
                        { Stringify(Envelope(JBool(FALSE),
                                             Get(call[c].result.val, K_mainResult), "all"))
                          \o nl : nl \in {<<>>, <<NL>>} }
            /\ call[c].pc = "thrown" =>
                   ErrorKind(call[c].result.err) \in
                       {"UnavailableError", "SpawnError", "TimeoutError", "ProcessError",
                        "EnvelopeError", "ToolError"}

\* updateSubtask returned, as a text, an answer that is a JSON document
C22_Witness ==
    /\ call["c1"].kind = "updateSubtask"
    /\ call["c1"].pc = "returned"
    /\ Get(call["c1"].result.val, K_mainResult) = JStr(T_smallDoc)

\* analyzeComplexity was applied to an analysis, a list of entries
Analysed ==
    /\ Operated
    /\ parseEnv.kind = "analyzeComplexity"
    /\ parseEnv.answer.t = "arr"

\* the complexityScore members of the entries of the analysis xs
ScoresOf(xs) == [k \in 1..Len(xs.v) |-> Get(xs.v[k], K_complexityScore)]

\* x is a number from 1 to 10
ScoreInRange(x) ==
    /\ x.t = "num"
    /\ ~x.neg
    /\ x.v >= 1
    /\ x.v < 10 \/ (x.v = 10 /\ x.f = <<>>)

ScoreWhole(x) == x.t = "num" /\ x.f = <<>>

\* the analysis is returned with the scores it came with, or fails validation
ScoresAccepted(accepted) ==
    IF accepted
    THEN /\ parseRes.ok
         /\ ScoresOf(Get(parseRes.val, K_mainResult)) = ScoresOf(parseEnv.answer)
    ELSE /\ ~parseRes.ok
         /\ ErrorKind(parseRes.err) = "ValidationError"

\* C23: analyzeComplexity accepts an analysis only if the complexityScore of
\* each entry is an integer from 1 to 10; any other score fails validation,
\* and a score is never coerced, rounded or clamped.
C23_IntegerScore ==
    Analysed =>
        ScoresAccepted(\A k \in 1..Len(parseEnv.answer.v) :
                          /\ ScoreInRange(ScoresOf(parseEnv.answer)[k])
                          /\ ScoreWhole(ScoresOf(parseEnv.answer)[k]))

\* C23, amended: analyzeComplexity accepts an analysis only if the
\* complexityScore of each entry is a number from 1 to 10, whole or not;
\* any other score fails validation, and a score is never coerced, rounded
\* or clamped.
C23_NumberScore ==
    Analysed =>
        ScoresAccepted(\A k \in 1..Len(parseEnv.answer.v) :
                          ScoreInRange(ScoresOf(parseEnv.answer)[k]))

\* an analysis whose second entry has the score 5.5 was returned as it came
C23_Witness ==
    /\ Analysed
    /\ Len(parseEnv.answer.v) = 2
    /\ ScoresOf(parseEnv.answer)[2] = JFrac(5, <<"5">>, FALSE)
    /\ parseRes.ok
    /\ Get(parseRes.val, K_mainResult) = parseEnv.answer

\* generateTasksFromPrd was applied to a task set
TaskSetAnswered ==
    /\ Operated
    /\ parseEnv.kind = "generateTasksFromPrd"
    /\ parseEnv.answer.t = "obj"

\* the tasks of the answer, and the tasks of the returned task set
TasksIn == Get(parseEnv.answer, K_tasks).v
TasksOut ==
    Get(IF parseEnv.impl = "inline" THEN parseRes.val
        ELSE Get(parseRes.val, K_mainResult), K_tasks).v

\* the members of a task that have a default, and their defaults
DefaultOf(key) ==
    CASE key = K_dependencies -> JArr(<<>>)
      [] key = K_status -> JStr(W_pending)
      [] key = K_priority -> JStr(W_medium)
      [] key = K_details -> JStr(<<>>)
      [] key = K_testStrategy -> JStr(<<>>)

Defaulted == {K_dependencies, K_status, K_priority, K_details, K_testStrategy}

\* a member of the task x that has a default holds its given value in the
\* task y, or the default when x has no such member
DefaultsFilled(x, y) ==
    \A key \in Defaulted :
        Get(y, key) = IF HasKey(x, key) THEN Get(x, key) ELSE DefaultOf(key)

\* C24: a task set whose tasks omit dependencies, status and priority (and
\* details and testStrategy) validates with dependencies = [], status =
\* "pending", priority = "medium", details = "" and testStrategy = "", and
\* every member that is present in the document is kept with its value.
C24_DefaultsKeepAll ==
    TaskSetAnswered =>
        /\ parseRes.ok
        /\ Len(TasksOut) = Len(TasksIn)
        /\ \A k \in 1..Len(TasksIn) :
            /\ DefaultsFilled(TasksIn[k], TasksOut[k])
            /\ \A j \in 1..Len(TasksIn[k].v) :
                   Get(TasksOut[k], TasksIn[k].v[j][1]) = TasksIn[k].v[j][2]

\* C24, amended: such a task set validates with the defaults, every member
\* of the task schema that is present in the document is kept with its
\* value, and a member the schema does not name is left out of the result.
C24_DefaultsKeepSchema ==
    TaskSetAnswered =>
        /\ parseRes.ok
        /\ Len(TasksOut) = Len(TasksIn)
        /\ \A k \in 1..Len(TasksIn) :
            /\ DefaultsFilled(TasksIn[k], TasksOut[k])
            /\ \A key \in {K_id, K_title, K_description} :
                   Get(TasksOut[k], key) = Get(TasksIn[k], key)
            /\ \A j \in 1..Len(TasksOut[k].v) :
                   TasksOut[k].v[j][1] \in Defaulted \cup {K_id, K_title, K_description}

\* a task set of two tasks without any of the five members was returned
\* with all the defaults
C24_Witness ==
    /\ TaskSetAnswered
    /\ parseEnv.impl = "shared"
    /\ Len(TasksIn) = 2
    /\ \A key \in Defaulted : ~HasKey(TasksIn[2], key)
    /\ parseRes.ok
    /\ \A key \in Defaulted : Get(TasksOut[2], key) = DefaultOf(key)

\* expandTask was applied to a list of subtasks
Expanded ==
    /\ Operated
    /\ parseEnv.kind = "expandTask"
    /\ parseEnv.answer.t = "obj"

SubtasksIn == Get(parseEnv.answer, K_subtasks).v

\* the subtasks of the answer whose title has fewer than 5 characters
ShortTitled == {k \in 1..Len(SubtasksIn) : Len(Get(SubtasksIn[k], K_title).v) < 5}

\* the message m holds an issue of the code about the value at the path
Mentions(m, code, path) ==
    \E i \in 1..Len(m) : HasAt(m, i, <<code>> \o path \o <<";">>)

\* the path of the title of the k-th subtask
TitlePath(k) == <<"/">> \o K_subtasks \o <<"/">> \o NatText(k - 1) \o <<"/">> \o K_title

\* C25: expandTask rejects every document that holds a subtask whose title
\* has fewer than 5 characters: it fails with a validation error whose
\* message names the title member and the minimum-length constraint, and it
\* returns no subtask list.
C25_ShortTitleRejected ==
    (Expanded /\ ShortTitled /= {}) =>
        /\ ~parseRes.ok
        /\ parseRes.val = JUndef
        /\ ErrorKind(parseRes.err) = "ValidationError"
        /\ \A k \in ShortTitled : Mentions(parseRes.err, "too_small", TitlePath(k))

\* a list whose second subtask has a title of 3 characters and too short a
\* description was rejected for both
C25_Witness ==
    /\ Expanded
    /\ ShortTitled = {2}
    /\ Len(Get(SubtasksIn[2], K_title).v) = 3
    /\ Get(SubtasksIn[2], K_description) = JStr(T_title)
    /\ ~parseRes.ok
    /\ Mentions(parseRes.err, "too_small", TitlePath(2))

\* C26: for generateTasksFromPrd called with the count numTasks and the
\* starting identifier nextId, every successful result holds exactly
\* numTasks tasks, their identifiers are nextId, nextId + 1, ... in order,
\* and each task satisfies the task schema with its defaults filled.
C26_CountAndIds ==
    (TaskSetAnswered /\ parseRes.ok) =>
        /\ Len(TasksOut) = parseEnv.numTasks
        /\ \A k \in 1..Len(TasksOut) :
            /\ Get(TasksOut[k], K_id) = JNum(parseEnv.nextId + k - 1)
            /\ ZodParse(prdSingleTaskSchema, TasksOut[k], <<>>) = ZOk(TasksOut[k])

----------------------------------------------------------------------------
(* The invocations on their own *)

\* a call reached executeCommand
Invoked == parsePc = "done" /\ parseEnv.form = "invoke"

\* the research flag the caller gave (false when it gave none)
ResearchGiven == Param(parseEnv.params, ResearchKey(parseEnv.kind), JBool(FALSE))

\* the timeout of the documentation for complex and research operations
ComplexTimeout == 300000

\* C27: when CLAUDE_CLI_PATH is set, the version probe of the bridge and
\* every operation spawn that executable, the one the validation script
\* probes; when it is not set, both spawn claude.
C27_CustomPath ==
    Invoked =>
        /\ parseRes.command =
               IF parseEnv.cliPath /= "" THEN parseEnv.cliPath ELSE "claude"
        /\ parseRes.command =
               Invocation("validator", "checkAvailability", JObj(<<>>),
                          parseEnv.cliPath).command

\* C28: the process of an operation gets the arguments --print,
\* --output-format, json and the system prompt, in this order and nothing
\* after them; the user prompt (or the source document) is no argument,
\* and is the text written to the standard input.
C28_ArgsAndStdin ==
    /\ \A c \in Callers :
        proc[c].purpose = "op" =>
            /\ proc[c].args = <<"--print", "--output-format", "json", "systemPrompt">>
            /\ proc[c].stdin = <<[op |-> "write", data |-> <<"userPrompt">>],
                                 [op |-> "end", data |-> <<>>]>>
    /\ (Invoked /\ parseEnv.kind \in Operations) =>
            /\ Len(parseRes.args) = 4
            /\ SubSeq(parseRes.args, 1, 3) = <<"--print", "--output-format", "json">>
            /\ parseRes.args[4] = "systemPrompt"
            /\ \A k \in 1..Len(parseRes.args) :
                   parseRes.args[k] \notin {"userPrompt", "prdContent"}
            /\ parseRes.input \in {<<"userPrompt">>, <<"prdContent">>}
            /\ StdinCalls(parseRes.input) =
                   <<[op |-> "write", data |-> parseRes.input], [op |-> "end", data |-> <<>>]>>

\* generateTasksFromPrd of the inline implementation was called with the
\* research flag, a timeout and a count
C28_Witness ==
    /\ Invoked
    /\ parseEnv.impl = "inline"
    /\ parseEnv.kind = "generateTasksFromPrd"
    /\ Get(parseEnv.params, K_research) = JBool(TRUE)
    /\ Get(parseEnv.params, K_numTasks) = JNum(5)
    /\ parseRes.timeout = 1000
    /\ parseRes.input = <<"prdContent">>

\* C29: the research flag the caller gives to an operation is a member of
\* the input of the prompt generator of that operation.
C29_ResearchPassed ==
    (Invoked /\ parseEnv.kind \in Operations) =>
        Get(parseRes.promptInput, ResearchKey(parseEnv.kind)) = ResearchGiven

\* C30: when the caller gives no timeout, task expansion and the operations
\* in research mode run with 300000 ms, and the other operations with
\* 120000 ms.
C30_DefaultTimeouts ==
    (Invoked /\ parseEnv.kind \in Operations
        /\ Get(parseEnv.params, K_timeout) = JUndef) =>
        parseRes.timeout =
            IF parseEnv.kind = "expandTask" \/ ResearchGiven = JBool(TRUE)
            THEN ComplexTimeout ELSE DefaultTimeout

----------------------------------------------------------------------------
(* The validation script: properties *)

\* runAllTests has returned
Validated == parsePc \in {"returned", "exited"} /\ parseEnv.form = "validate"

\* the results runAllTests recorded, in the order the tests ran
Results == parseRes.v.testResults

AllChecksTrue == Len(Results) = 5 /\ \A k \in 1..5 : Results[k][2]

\* C31: runAllTests returns true, and the script exits with status 0,
\* exactly when each of the five checks returned true and no error was
\* recorded; otherwise it returns false and the script exits with status 1.
\* Warnings do not matter.
C31_SuccessIff ==
    /\ Validated =>
           parseRes.success = (AllChecksTrue /\ parseRes.v.errors = <<>>)
    /\ (parsePc = "exited" /\ parseEnv.form = "validate") =>
           parseRes.exit = IF AllChecksTrue /\ parseRes.v.errors = <<>> THEN 0 ELSE 1

\* the script exited with status 0 although warnings were recorded
C31_Witness ==
    /\ parsePc = "exited"
    /\ parseEnv.form = "validate"
    /\ parseRes.exit = 0
    /\ Len(parseRes.v.warnings) >= 2

\* the step of runAllTests that runs the test of the name
Runs(name) ==
    /\ parsePc = "testing"
    /\ parseEnv.form = "validate"
    /\ Tests[Len(Results) + 1] = name
    /\ Len(parseRes'.v.testResults) = Len(Results) + 1

\* C32: whenever CLAUDE_CLI_MODE is not 'true', testCLIProviderBasics is
\* skipped: it returns true, neither imports the provider module nor runs
\* the availability check of the provider, and records no error.
C32_SkippedUnlessEnabled ==
    [][(Runs("CLI Provider Basics") /\ parseEnv.cliMode /= JStr(W_true)) =>
            /\ parseRes'.v.testResults[5] = <<"CLI Provider Basics", TRUE>>
            /\ parseRes'.v.effects = parseRes.v.effects
            /\ parseRes'.v.errors = parseRes.v.errors]_vars

\* C33: every name that checkCLIProviderModule requires is exported by the
\* provider module, so that the check records no 'Missing export' error
\* for the module of either implementation.
C33_NoMissingExport ==
    (parseEnv.form = "validate" /\ parseEnv.module \in {"inline", "shared"}) =>
        \A k \in 1..Len(parseRes.v.errors) :
            parseRes.v.errors[k][1] /= "Missing export: "

\* C38: the five checks all run, in the order CLI availability, environment
\* config, provider module, config manager, provider basics, whatever the
\* earlier ones returned; and checkCLIProviderModule returns true only if
\* the error list of the validator is empty when it finishes, so that an
\* error of an earlier check makes it return false.
C38_AllRunInOrder ==
    /\ [](parseEnv.form = "validate" =>
            /\ \A k \in 1..Len(Results) : Results[k][1] = Tests[k]
            /\ Validated => Len(Results) = 5)
    /\ [][parseEnv.form = "validate" =>
            /\ parsePc = "testing" => Len(parseRes'.v.testResults) = Len(Results) + 1
            /\ Runs("CLI Provider Module") =>
                /\ parseRes'.v.testResults[3][2] => parseRes'.v.errors = <<>>
                /\ parseRes.v.errors /= <<>> => ~parseRes'.v.testResults[3][2]]_vars

\* the version probe failed, and the check of a provider module that has
\* every expected name returned false
C38_Witness ==
    /\ parseEnv.form = "validate"
    /\ parseEnv.module = "complete"
    /\ Len(Results) = 3
    /\ Results[1][2] = FALSE
    /\ Results[3][2] = FALSE
    /\ parseRes.v.errors = << <<"Claude CLI not available: ">> >>

----------------------------------------------------------------------------
(* The availability flag, the timer and the brace strategy *)

\* C34: once the availability flag holds a value, every later call of
\* checkAvailability returns that value, spawns no process and does not
\* throw, and the flag keeps the value: no outcome of a probe or of an
\* operation changes it.
C34_FlagKept ==
    [][\A c \in Callers :
        /\ isAvailable /= "null" => isAvailable' = isAvailable
        /\ (isAvailable /= "null" /\ call[c].pc \in {"idle", "returned", "thrown"}
                /\ call'[c] /= call[c]) =>
            /\ call'[c].probes = 0
            /\ proc'[c].purpose /= "probe"
            /\ call'[c].pc /= "thrown"
            /\ call'[c].kind = "checkAvailability" =>
                /\ call'[c].pc = "returned"
                /\ call'[c].result = Ok(JBool(isAvailable = "true"))
                /\ proc'[c] = NoProc]_vars

\* the 'close' or the 'error' event of caller c's call has been handled
EventHandled(c) ==
    \/ proc[c].phase = "closed"
    \/ proc[c].phase = "failed" /\ ~proc[c].errorPending

\* C35: handling the 'close' or the 'error' event of the child disarms the
\* timer of the call; SIGTERM is sent at most once per call, only by the
\* timer when it expires, and never after the 'close' or 'error' event of the
\* call has been handled; a settled call has no armed timer.
C35_TimerDisarmed ==
    /\ [](\A c \in Callers :
            /\ proc[c].kills <= 1
            /\ proc[c].kills = 1 => proc[c].timer = "fired"
            /\ EventHandled(c) => proc[c].timer /= "armed"
            /\ Settled(c) => proc[c].timer /= "armed")
    /\ [][\A c \in Callers :
            proc'[c].kills > proc[c].kills =>
                /\ proc[c].timer = "armed"
                /\ proc'[c].timer = "fired"
                /\ ~EventHandled(c)]_vars

\* a call with a deadline whose child closed in time: the timer is cleared
\* and no signal was sent
C35_Witness ==
    /\ proc["c1"].phase = "closed"
    /\ proc["c1"].timeout > 0
    /\ proc["c1"].timer = "cleared"
    /\ proc["c1"].kills = 0
    /\ proc["c1"].promise = "resolved"

\* C36: with a positive deadline every executeCommand call settles in the
\* end, given only that an armed timer fires: the call does not stay pending
\* when the child never exits or never closes its streams.
C36_DeadlineSettles ==
    \A c \in Callers :
        (proc[c].promise = "pending" /\ proc[c].timeout > 0) ~> Settled(c)

\* a call settled by its timer while the child is still running
C36_Witness ==
    /\ proc["c1"].timeout > 0
    /\ proc["c1"].phase = "running"
    /\ proc["c1"].timer = "fired"
    /\ proc["c1"].promise = "rejected"
    /\ call["c1"].kind = "executeCommand"
    /\ call["c1"].pc = "thrown"

\* an operation that extracts a document was applied to an answer the model
\* wrote as text
TextAnswered ==
    /\ Operated
    /\ parseEnv.kind /= "updateSubtask"
    /\ parseEnv.answer.t = "str"

\* neither strategy 1 nor strategy 2 recovers a document from text
BraceOnly(text) == ~DirectParse(text).ok /\ ~CodeBlockParse(text).ok

\* C37: a document recovered by extraction strategy 3, from the first "{" to
\* the last "}", is a JSON object and never an array; so analyzeComplexity,
\* whose schema wants an array, fails whenever its result text is not JSON as
\* a whole and holds no fenced code block that parses.
C37_BraceGivesObject ==
    TextAnswered =>
        /\ BraceParse(parseEnv.answer.v).ok => BraceParse(parseEnv.answer.v).val.t = "obj"
        /\ (parseEnv.kind = "analyzeComplexity" /\ BraceOnly(parseEnv.answer.v)) =>
                ~parseRes.ok

\* an analysis of one entry after an introduction: strategy 3 recovers the
\* entry, an object, and analyzeComplexity fails on it
C37_Witness ==
    /\ TextAnswered
    /\ parseEnv.kind = "analyzeComplexity"
    /\ parseEnv.answer = JStr(T_hereIs \o Stringify(JArr(<<ComplexityEntry(1, JNum(5))>>)))
    /\ BraceOnly(parseEnv.answer.v)
    /\ BraceParse(parseEnv.answer.v) = [ok |-> TRUE, val |-> ComplexityEntry(1, JNum(5))]
    /\ ~parseRes.ok
    /\ HasAt(parseRes.err, 1, <<M_ValidationFailed("analyzeComplexity")>>)
====
